---------------------------- MODULE Spec2Model ----------------------------
(***************************************************************************)
(* Strategic signal lifecycle, risk governor and signal factory of the     *)
(* trading system, as state machines.                                      *)
(*                                                                         *)
(*  - SetupLifecycleManager (application/services/                         *)
(*    setup_lifecycle_manager.py): active map, history, statistics, the    *)
(*    re-entrant lock, the expiry monitor thread and the one-shot          *)
(*    auto-activation timers.                                              *)
(*  - RiskManagementService (application/services/                         *)
(*    risk_management_service.py): breakers, metrics, evaluate_signal.     *)
(*  - StrategicSignalService.create_strategic_signal (application/         *)
(*    services/strategic_signal_service.py).                               *)
(*                                                                         *)
(* The clock `now` counts seconds.  Optional values (None in the source)   *)
(* are sequences of length 0 or 1.                                         *)
(***************************************************************************)
EXTENDS Integers, Sequences, FiniteSets, Bags, TLC

VARIABLES
    now,              \* datetime.now(), in seconds
    active_signals,   \* SetupLifecycleManager.active_signals (insertion-ordered dict)
    signal_history,   \* SetupLifecycleManager.signal_history (deque of the archived signals)
    stats,            \* SetupLifecycleManager.stats
    state_callbacks,  \* SetupLifecycleManager.state_callbacks
    running,          \* SetupLifecycleManager.running
    lock,             \* holder of SetupLifecycleManager.lock
    timers,           \* pending threading.Timer objects of create_signal (a bag)
    api_pc,           \* position of the calling thread inside transition_state
    api_call,         \* arguments of the transition_state call in progress
    mon_pc,           \* position of the monitor thread inside _monitor_loop
    mon_ids,          \* _monitor_loop's local signal_ids still to visit
    published,        \* events handed to event_bus.publish by the last step, in order
    fired,            \* state callbacks invoked by the last step, in order
    ret               \* what the last step was and what it returned

VARIABLES
    circuit_breakers,     \* RiskManagementService.circuit_breakers
    performance_metrics,  \* RiskManagementService.performance_metrics
    signal_timestamps,    \* RiskManagementService.signal_timestamps
    risk_signal_history,  \* RiskManagementService.signal_history (deque of the approvals)
    evaluation,           \* the last step's evaluate_signal call, if it made one:
                          \* its arguments and what it returned
    trade_count,          \* TRADE_CLOSED events published so far
    emergency_window      \* history: the emergency breaker has been true since the
                          \* last daily reset or override of it

VARIABLES
    pending_confluence,   \* StrategicSignalService.pending_confluence
    service_stats,        \* StrategicSignalService.stats
    uuids,                \* ids handed out by uuid.uuid4() so far
    candidate,            \* the latest create_strategic_signal call, if any: its
                          \* arguments, what its _check_confluence returned and
                          \* the signal it returned
    consumed              \* history: ids of the pending candidates that a
                          \* confluence check compared and removed

VARIABLES
    positions,            \* PositionManager.positions (insertion-ordered dict)
    signal_to_position,   \* PositionManager.signal_to_position
    closed_positions,     \* PositionManager.closed_positions (deque)
    position_stats        \* PositionManager.stats

VARIABLES
    handlers,             \* LocalEventBus.handlers: per event type, the handlers in
                          \* subscription order
    delivery              \* the last publish call: its event type, the handlers it
                          \* invoked, in order, and whether an exception left it

VARIABLES
    position_lock,        \* the thread that owns PositionManager.lock, or "free"
    lock_threads          \* per thread: the `with self.lock` blocks of the call it is
                          \* making, and how many of them it has entered

VARIABLES
    monitor_threads,      \* the monitor threads start() has created, in order: where
                          \* each is in _monitor_loop, and its signal_ids
    join_pc               \* where a caller of stop() is: idle, or in monitor_thread.join

VARIABLES
    workers,              \* the threads that deliver TRADE_CLOSED to the risk service:
                          \* where each is in _handle_trade_closed, with its locals
    delivered_pnl         \* history: the sum of the pnl of the events they delivered

lifecycle_vars == <<now, active_signals, signal_history, stats, state_callbacks,
                    running, lock, timers, api_pc, api_call, mon_pc, mon_ids,
                    published, fired, ret>>

risk_vars == <<circuit_breakers, performance_metrics, signal_timestamps,
               risk_signal_history, evaluation, trade_count, emergency_window>>

factory_vars == <<pending_confluence, service_stats, uuids, candidate, consumed>>

position_vars == <<positions, signal_to_position, closed_positions, position_stats>>

bus_vars == <<handlers, delivery>>

worker_vars == <<workers, delivered_pnl>>

thread_vars == <<monitor_threads, join_pc>>

lock_vars == <<position_lock, lock_threads>>

vars == <<lifecycle_vars, risk_vars, factory_vars, position_vars, bus_vars, worker_vars, thread_vars, lock_vars>>

-----------------------------------------------------------------------------
(* Bounds of the model *)

MaxTime == 2          \* the clock stops advancing here
MaxCreated == 2       \* create_signal calls per behaviour
MaxArchived == 101    \* create_signal calls of a long run that fills the history

(* Configuration: setup_timeouts, in seconds *)
TimeoutReversalViolent == 1
TimeoutBreakoutIgnition == 3

(* Program constants *)
AutoActivateDelay == 2
HistoryMaxLen == 100
PointValue == 10

-----------------------------------------------------------------------------
(* Domain: domain/entities/strategic_signal.py *)

None == <<>>
Some(v) == <<v>>

SignalState == {"PENDING", "ACTIVE", "EXECUTED", "EXPIRED", "STOPPED", "TARGET_HIT"}

TerminalStates == {"EXPIRED", "STOPPED", "TARGET_HIT"}

SetupType == {"REVERSAL_VIOLENT", "BREAKOUT_IGNITION"}

\* The ids of the signals created and of the requests made.
SignalIds == {"s1"}

\* The signals handed to create_signal: one per id, with fixed attributes.
NewSignal(id) ==
    [id |-> id,
     symbol |-> IF id = "s1" THEN "WDO" ELSE "DOL",
     setup_type |-> IF id = "s1" THEN "REVERSAL_VIOLENT" ELSE "BREAKOUT_IGNITION",
     direction |-> IF id = "s1" THEN "COMPRA" ELSE "VENDA",
     confidence |-> IF id = "s1" THEN 70 ELSE 90,
     entry_price |-> 5000,
     stop_loss |-> IF id = "s1" THEN 4984 ELSE 5016,
     targets |-> IF id = "s1" THEN <<5016>> ELSE <<4984>>,
     state |-> "PENDING",
     expiration_time |-> 0,
     execution_price |-> None,
     exit_price |-> None,
     pnl |-> None]

ExecutionPrices == {100}
ExitPrices == {105}

\* **kwargs of transition_state: a key is present or absent.
Kwargs == [execution_price : {None} \cup {Some(p) : p \in ExecutionPrices},
           exit_price : {None} \cup {Some(p) : p \in ExitPrices}]

NoKwargs == [execution_price |-> None, exit_price |-> None]

IsExpired(signal, t) == t >= signal.expiration_time

UpdateState(signal, new_state, kwargs) ==
    LET s1 == [signal EXCEPT !.state = new_state] IN
    IF new_state = "EXECUTED" /\ kwargs.execution_price # None
    THEN [s1 EXCEPT !.execution_price = kwargs.execution_price]
    ELSE IF new_state \in {"STOPPED", "TARGET_HIT"} /\ kwargs.exit_price # None
    THEN LET s2 == [s1 EXCEPT !.exit_price = kwargs.exit_price] IN
         IF s2.execution_price # None
         THEN [s2 EXCEPT !.pnl =
                  IF s2.direction = "COMPRA"
                  THEN Some((s2.exit_price[1] - s2.execution_price[1]) * PointValue)
                  ELSE Some((s2.execution_price[1] - s2.exit_price[1]) * PointValue)]
         ELSE s2
    ELSE s1

-----------------------------------------------------------------------------
(* The insertion-ordered dict active_signals, as a sequence of signals     *)
(* with distinct ids.                                                      *)

Keys(d) == [i \in 1..Len(d) |-> d[i].id]

KeySet(d) == {d[i].id : i \in 1..Len(d)}

Has(d, id) == \E i \in 1..Len(d) : d[i].id = id

IndexOf(d, id) == CHOOSE i \in 1..Len(d) : d[i].id = id

Get(d, id) == d[IndexOf(d, id)]

Put(d, signal) ==
    IF Has(d, signal.id)
    THEN [d EXCEPT ![IndexOf(d, signal.id)] = signal]
    ELSE Append(d, signal)

Del(d, id) ==
    LET k == IndexOf(d, id) IN
    [i \in 1..(Len(d) - 1) |-> IF i < k THEN d[i] ELSE d[i + 1]]

\* deque(maxlen=n).append
DequeAppend(q, x, n) ==
    IF Len(q) >= n THEN Append(Tail(q), x) ELSE Append(q, x)

-----------------------------------------------------------------------------
(* SetupLifecycleManager: application/services/setup_lifecycle_manager.py  *)

\* timeout_config.get(signal.setup_type, 300)
TimeoutConfig(setup_type) ==
    IF setup_type = "REVERSAL_VIOLENT" THEN TimeoutReversalViolent
    ELSE TimeoutBreakoutIgnition

StatKeys == {"total_created", "total_executed", "total_expired",
             "total_stopped", "total_targets_hit"}

Event(topic, id, old_state, new_state, reason) ==
    [topic |-> topic, signal_id |-> id, old_state |-> old_state,
     new_state |-> new_state, reason |-> reason]

CreatedEvent(id) == Event("STRATEGIC_SIGNAL_CREATED", id, "-", "-", "-")

StateChangedEvent(id, old_state, new_state) ==
    Event("STRATEGIC_SIGNAL_STATE_CHANGED", id, old_state, new_state, "-")

ExpiredEvent(id, reason) == Event("STRATEGIC_SIGNAL_EXPIRED", id, "-", "-", reason)

\* The manager's data, as the operators below pass it along.
Manager == [active |-> active_signals, history |-> signal_history, stats |-> stats]

\* A transition table that also lets an EXECUTED signal expire.
IsValidTransitionLoose(from_state, to_state) ==
    to_state \in (CASE from_state = "PENDING" -> {"ACTIVE", "EXPIRED"}
                    [] from_state = "ACTIVE" -> {"EXECUTED", "EXPIRED"}
                    [] from_state = "EXECUTED" -> {"STOPPED", "TARGET_HIT", "EXPIRED"}
                    [] OTHER -> {})

IsValidTransition(from_state, to_state) ==
    to_state \in (CASE from_state = "PENDING" -> {"ACTIVE", "EXPIRED"}
                    [] from_state = "ACTIVE" -> {"EXECUTED", "EXPIRED"}
                    [] from_state = "EXECUTED" -> {"STOPPED", "TARGET_HIT"}
                    [] OTHER -> {})

\* The statistics update of transition_state.
StatOf(new_state) ==
    CASE new_state = "EXECUTED" -> "total_executed"
      [] new_state = "EXPIRED" -> "total_expired"
      [] new_state = "STOPPED" -> "total_stopped"
      [] new_state = "TARGET_HIT" -> "total_targets_hit"
      [] OTHER -> "none"

UpdateStats(st, new_state) ==
    IF StatOf(new_state) = "none" THEN st
    ELSE [st EXCEPT ![StatOf(new_state)] = @ + 1]

\* What the history keeps of an archived signal: its id and its final state.
Archived(signal) == [id |-> signal.id, state |-> signal.state]

\* _archive_signal on a history that is a plain list: nothing is dropped.
ArchiveSignalUnbounded(m, id) ==
    [m EXCEPT !.history = Append(m.history, Archived(Get(m.active, id))),
              !.active = Del(m.active, id)]

\* _archive_signal: append to the history, delete from the active map.
ArchiveSignal(m, id) ==
    [m EXCEPT !.history = DequeAppend(m.history, Archived(Get(m.active, id)), HistoryMaxLen),
              !.active = Del(m.active, id)]

\* transition_state that updates, publishes and calls back before it validates.
TransitionCoreEager(m, callbacks, id, new_state, kwargs) ==
    IF ~Has(m.active, id)
    THEN [ok |-> FALSE, m |-> m, events |-> <<>>, fired |-> <<>>]
    ELSE LET signal == Get(m.active, id)
             old_state == signal.state
         IN [ok |-> IsValidTransition(old_state, new_state),
             m |-> [m EXCEPT
                      !.active = Put(m.active, UpdateState(signal, new_state, kwargs)),
                      !.stats = UpdateStats(m.stats, new_state)],
             events |-> <<StateChangedEvent(id, old_state, new_state)>>,
             fired |-> [i \in 1..Len(callbacks[new_state]) |->
                           [callback |-> callbacks[new_state][i], signal_id |-> id]]]

\* transition_state up to and including the statistics update: lookup,
\* validation, update_state, the state-change event, the callbacks.
TransitionCore(m, callbacks, id, new_state, kwargs) ==
    IF ~Has(m.active, id)
    THEN [ok |-> FALSE, m |-> m, events |-> <<>>, fired |-> <<>>]
    ELSE LET signal == Get(m.active, id)
             old_state == signal.state
         IN IF ~IsValidTransition(old_state, new_state)
            THEN [ok |-> FALSE, m |-> m, events |-> <<>>, fired |-> <<>>]
            ELSE [ok |-> TRUE,
                  m |-> [m EXCEPT
                           !.active = Put(m.active, UpdateState(signal, new_state, kwargs)),
                           !.stats = UpdateStats(m.stats, new_state)],
                  events |-> <<StateChangedEvent(id, old_state, new_state)>>,
                  fired |-> [i \in 1..Len(callbacks[new_state]) |->
                                [callback |-> callbacks[new_state][i], signal_id |-> id]]]

\* The end of transition_state: a signal in a final state is archived.
TransitionArchive(m, id, new_state) ==
    IF new_state \in TerminalStates THEN ArchiveSignal(m, id) ELSE m

\* transition_state as one call (as the monitor, the timer and
\* cleanup_expired make it, holding the re-entrant lock).
TransitionState(m, callbacks, id, new_state, kwargs) ==
    LET r == TransitionCore(m, callbacks, id, new_state, kwargs) IN
    IF r.ok THEN [r EXCEPT !.m = TransitionArchive(r.m, id, new_state)] ELSE r

\* A callback loop without the try/except: the first callback that raises
\* ends it, and the exception leaves the loop.
InvokeCallbacksUnguarded(callbacks, raising, id) ==
    LET stops == {i \in 1..Len(callbacks) : callbacks[i] \in raising}
        last == IF stops = {} THEN Len(callbacks)
                ELSE CHOOSE i \in stops : \A j \in stops : i <= j
    IN [fired |-> [i \in 1..last |-> [callback |-> callbacks[i], signal_id |-> id]],
        raised |-> stops # {}]

\* The loop over the callbacks of the new state: each call is inside its own
\* try/except Exception, so a callback that raises is logged, the loop goes
\* on to the next one and nothing is raised to transition_state.
InvokeCallbacks(callbacks, raising, id) ==
    [fired |-> [i \in 1..Len(callbacks) |-> [callback |-> callbacks[i], signal_id |-> id]],
     raised |-> FALSE]

\* transition_state as one call, with the callbacks in `raising` raising an
\* exception when called.  An exception that left the callback loop would
\* leave transition_state after update_state and the publish, before the
\* statistics, the archival and the return.
TransitionStateCallbacks(m, callbacks, raising, id, new_state, kwargs) ==
    IF ~Has(m.active, id)
    THEN [ok |-> FALSE, m |-> m, events |-> <<>>, fired |-> <<>>]
    ELSE LET signal == Get(m.active, id)
             old_state == signal.state
             updated == [m EXCEPT !.active = Put(m.active, UpdateState(signal, new_state, kwargs))]
             loop == InvokeCallbacks(callbacks[new_state], raising, id)
             events == <<StateChangedEvent(id, old_state, new_state)>>
         IN IF ~IsValidTransition(old_state, new_state)
            THEN [ok |-> FALSE, m |-> m, events |-> <<>>, fired |-> <<>>]
            ELSE IF loop.raised
            THEN [ok |-> FALSE, m |-> updated, events |-> events, fired |-> loop.fired]
            ELSE [ok |-> TRUE,
                  m |-> TransitionArchive(
                            [updated EXCEPT !.stats = UpdateStats(m.stats, new_state)],
                            id, new_state),
                  events |-> events,
                  fired |-> loop.fired]

\* get_active_signals(symbol): ids of the ACTIVE signals (of the symbol).
GetActiveSignals(symbol) ==
    {active_signals[i].id : i \in
        {j \in 1..Len(active_signals) :
            /\ symbol # None => active_signals[j].symbol = symbol[1]
            /\ active_signals[j].state = "ACTIVE"}}

\* No mutual exclusion: every thread enters at once.
CanAcquireUnlocked(thread) == lock \in {"free", "api", "monitor", "timer"}

\* threading.RLock: a thread acquires the lock when it is free or its own.
CanAcquire(thread) == lock \in {"free", thread}

\* The last step: the operation, its signal id, its boolean result and
\* (cleanup_expired) the count it returned.
Ret(op, id, ok, count) ==
    [op |-> op, signal_id |-> id, new_state |-> "-", ok |-> ok, count |-> count]

\* The last step was a transition_state call for new_state.
RetTransition(op, id, new_state, ok) ==
    [op |-> op, signal_id |-> id, new_state |-> new_state, ok |-> ok, count |-> 0]

-----------------------------------------------------------------------------
(* Initial state: SetupLifecycleManager.__init__ *)

NoCall == [signal_id |-> "-", new_state |-> "-"]

LifecycleInit ==
    /\ now = 0
    /\ active_signals = <<>>
    /\ signal_history = <<>>
    /\ stats = [k \in StatKeys |-> 0]
    /\ state_callbacks = [s \in SignalState |-> <<>>]
    /\ running = FALSE
    /\ lock = "free"
    /\ timers = EmptyBag
    /\ api_pc = "idle"
    /\ api_call = NoCall
    /\ mon_pc = "off"
    /\ mon_ids = <<>>
    /\ published = <<>>
    /\ fired = <<>>
    /\ ret = Ret("__init__", "-", TRUE, 0)

\* Writes a manager record back to the variables.
SetManager(m) ==
    /\ active_signals' = m.active
    /\ signal_history' = m.history
    /\ stats' = m.stats

-----------------------------------------------------------------------------
(* create_signal and the auto-activation timer *)

\* create_signal(signal) at time t, under the lock: expiration, PENDING,
\* registration, the creation event, the timer; it returns True.
CreateSignalResult(m, signal, t) ==
    LET timeout_seconds == TimeoutConfig(signal.setup_type)
        created == [signal EXCEPT !.expiration_time = t + timeout_seconds,
                                  !.state = "PENDING"]
    IN [ok |-> TRUE,
        m |-> [m EXCEPT !.active = Put(m.active, created),
                        !.stats = [m.stats EXCEPT !["total_created"] = @ + 1]],
        events |-> <<CreatedEvent(signal.id)>>,
        timer |-> SetToBag({[signal_id |-> signal.id, due |-> t + AutoActivateDelay]})]

\* create_signal, the max-th call at most.
CreateSignalUpTo(id, max) ==
    /\ api_pc = "idle"
    /\ CanAcquire("api")
    /\ stats["total_created"] < max
    /\ LET r == CreateSignalResult(Manager, NewSignal(id), now) IN
        /\ SetManager(r.m)
        /\ published' = r.events
        /\ timers' = timers (+) r.timer
        /\ ret' = Ret("create_signal", id, r.ok, 0)
    /\ fired' = <<>>
    /\ UNCHANGED <<now, state_callbacks, running, lock, api_pc, api_call, mon_pc, mon_ids>>
    /\ UNCHANGED <<risk_vars, factory_vars, position_vars, bus_vars, worker_vars, thread_vars, lock_vars>>

CreateSignal(id) == CreateSignalUpTo(id, MaxCreated)

\* _auto_activate_signal that sets ACTIVE on whatever signal it finds.
AutoActivateResultForced(m, callbacks, id) ==
    IF Has(m.active, id)
    THEN [ok |-> TRUE,
          m |-> [m EXCEPT !.active =
                    Put(m.active, UpdateState(Get(m.active, id), "ACTIVE", NoKwargs))],
          events |-> <<StateChangedEvent(id, Get(m.active, id).state, "ACTIVE")>>,
          fired |-> <<>>]
    ELSE [ok |-> FALSE, m |-> m, events |-> <<>>, fired |-> <<>>]

\* _auto_activate_signal(signal_id), under the lock.
AutoActivateResult(m, callbacks, id) ==
    IF Has(m.active, id) /\ Get(m.active, id).state = "PENDING"
    THEN TransitionState(m, callbacks, id, "ACTIVE", NoKwargs)
    ELSE [ok |-> FALSE, m |-> m, events |-> <<>>, fired |-> <<>>]

\* A timer fires, AutoActivateDelay or more after create_signal started it.
AutoActivateSignal(timer) ==
    /\ BagIn(timer, timers)
    /\ now >= timer.due
    /\ CanAcquire("timer")
    /\ LET r == AutoActivateResult(Manager, state_callbacks, timer.signal_id) IN
        /\ SetManager(r.m)
        /\ published' = r.events
        /\ fired' = r.fired
        /\ ret' = Ret("_auto_activate_signal", timer.signal_id, r.ok, 0)
    /\ timers' = timers (-) SetToBag({timer})
    /\ UNCHANGED <<now, state_callbacks, running, lock, api_pc, api_call, mon_pc, mon_ids>>
    /\ UNCHANGED <<risk_vars, factory_vars, position_vars, bus_vars, worker_vars, thread_vars, lock_vars>>

-----------------------------------------------------------------------------
(* transition_state, called by a thread that does not hold the lock: the  *)
(* call takes the lock, and a successful call holds it from the state     *)
(* update to the archival.                                                *)

TransitionStateCall(id, new_state, kwargs) ==
    /\ api_pc = "idle"
    /\ CanAcquire("api")
    /\ LET r == TransitionCore(Manager, state_callbacks, id, new_state, kwargs) IN
        /\ SetManager(r.m)
        /\ published' = r.events
        /\ fired' = r.fired
        /\ IF r.ok
           THEN /\ lock' = "api"
                /\ api_pc' = "archive"
                /\ api_call' = [signal_id |-> id, new_state |-> new_state]
                /\ ret' = RetTransition("transition_state:updated", id, new_state, TRUE)
           ELSE /\ ret' = RetTransition("transition_state", id, new_state, FALSE)
                /\ UNCHANGED <<lock, api_pc, api_call>>
    /\ UNCHANGED <<now, state_callbacks, running, timers, mon_pc, mon_ids>>
    /\ UNCHANGED <<risk_vars, factory_vars, position_vars, bus_vars, worker_vars, thread_vars, lock_vars>>

TransitionStateReturn ==
    /\ api_pc = "archive"
    /\ lock = "api"
    /\ SetManager(TransitionArchive(Manager, api_call.signal_id, api_call.new_state))
    /\ lock' = "free"
    /\ api_pc' = "idle"
    /\ api_call' = NoCall
    /\ published' = <<>>
    /\ fired' = <<>>
    /\ ret' = RetTransition("transition_state", api_call.signal_id, api_call.new_state, TRUE)
    /\ UNCHANGED <<now, state_callbacks, running, timers, mon_pc, mon_ids>>
    /\ UNCHANGED <<risk_vars, factory_vars, position_vars, bus_vars, worker_vars, thread_vars, lock_vars>>

-----------------------------------------------------------------------------
(* The expiry monitor thread: _monitor_loop *)

\* A test that only picks PENDING signals.
ExpirablePendingOnly(signal, t) ==
    IsExpired(signal, t) /\ signal.state \in {"PENDING"}

\* The test of _monitor_loop and cleanup_expired on one signal.
Expirable(signal, t) ==
    IsExpired(signal, t) /\ signal.state \in {"PENDING", "ACTIVE"}

\* start(): sets running and starts the monitor thread (one monitor thread
\* is modelled: start() waits for the previous one to have left its loop).
Start ==
    /\ api_pc = "idle"
    /\ CanAcquire("api")
    /\ ~running
    /\ mon_pc = "off"
    /\ running' = TRUE
    /\ mon_pc' = "head"
    /\ published' = <<>>
    /\ fired' = <<>>
    /\ ret' = Ret("start", "-", TRUE, 0)
    /\ UNCHANGED <<now, active_signals, signal_history, stats, state_callbacks, lock,
                   timers, api_pc, api_call, mon_ids>>
    /\ UNCHANGED <<risk_vars, factory_vars, position_vars, bus_vars, worker_vars, thread_vars, lock_vars>>

\* stop(): clears running under the lock (the join that follows has a timeout).
Stop ==
    /\ api_pc = "idle"
    /\ CanAcquire("api")
    /\ running
    /\ running' = FALSE
    /\ published' = <<>>
    /\ fired' = <<>>
    /\ ret' = Ret("stop", "-", TRUE, 0)
    /\ UNCHANGED <<now, active_signals, signal_history, stats, state_callbacks, lock,
                   timers, api_pc, api_call, mon_pc, mon_ids>>
    /\ UNCHANGED <<risk_vars, factory_vars, position_vars, bus_vars, worker_vars, thread_vars, lock_vars>>

\* `while self.running` is false: the thread ends.
MonitorExit ==
    /\ mon_pc = "head"
    /\ ~running
    /\ mon_pc' = "off"
    /\ published' = <<>>
    /\ fired' = <<>>
    /\ ret' = Ret("_monitor_loop:exit", "-", TRUE, 0)
    /\ UNCHANGED <<now, active_signals, signal_history, stats, state_callbacks, running,
                   lock, timers, api_pc, api_call, mon_ids>>
    /\ UNCHANGED <<risk_vars, factory_vars, position_vars, bus_vars, worker_vars, thread_vars, lock_vars>>

\* signal_ids = list(self.active_signals.keys()), under the lock.
MonitorSnapshot ==
    /\ mon_pc = "head"
    /\ running
    /\ CanAcquire("monitor")
    /\ mon_ids' = Keys(active_signals)
    /\ mon_pc' = "scan"
    /\ published' = <<>>
    /\ fired' = <<>>
    /\ ret' = Ret("_monitor_loop:snapshot", "-", TRUE, 0)
    /\ UNCHANGED <<now, active_signals, signal_history, stats, state_callbacks, running,
                   lock, timers, api_pc, api_call>>
    /\ UNCHANGED <<risk_vars, factory_vars, position_vars, bus_vars, worker_vars, thread_vars, lock_vars>>

\* One iteration of the for loop, first half: take the lock, look the
\* signal up and test it.  The lock is kept when the signal is to expire.
MonitorCheck ==
    /\ mon_pc = "scan"
    /\ mon_ids # <<>>
    /\ CanAcquire("monitor")
    /\ LET id == Head(mon_ids) IN
        IF Has(active_signals, id) /\ Expirable(Get(active_signals, id), now)
        THEN /\ lock' = "monitor"
             /\ mon_pc' = "expire"
             /\ ret' = Ret("_monitor_loop:check", id, TRUE, 0)
             /\ UNCHANGED mon_ids
        ELSE /\ mon_ids' = Tail(mon_ids)
             /\ ret' = Ret("_monitor_loop:check", id, FALSE, 0)
             /\ UNCHANGED <<lock, mon_pc>>
    /\ published' = <<>>
    /\ fired' = <<>>
    /\ UNCHANGED <<now, active_signals, signal_history, stats, state_callbacks, running,
                   timers, api_pc, api_call>>
    /\ UNCHANGED <<risk_vars, factory_vars, position_vars, bus_vars, worker_vars, thread_vars, lock_vars>>

\* The expiry event published before the transition.
MonitorExpireResultEventFirst(m, callbacks, id) ==
    LET r == TransitionState(m, callbacks, id, "EXPIRED", NoKwargs) IN
    [r EXCEPT !.events = <<ExpiredEvent(id, "timeout")>> \o r.events]

\* Second half, still under the lock: transition_state(id, EXPIRED), then
\* the expiry event, whatever transition_state returned.
MonitorExpireResult(m, callbacks, id) ==
    LET r == TransitionState(m, callbacks, id, "EXPIRED", NoKwargs) IN
    [r EXCEPT !.events = r.events \o <<ExpiredEvent(id, "timeout")>>]

MonitorExpire ==
    /\ mon_pc = "expire"
    /\ CanAcquire("monitor")
    /\ LET id == Head(mon_ids)
           r == MonitorExpireResult(Manager, state_callbacks, id)
       IN /\ SetManager(r.m)
          /\ published' = r.events
          /\ fired' = r.fired
          /\ ret' = Ret("_monitor_loop:expire", id, r.ok, 0)
    /\ lock' = "free"
    /\ mon_ids' = Tail(mon_ids)
    /\ mon_pc' = "scan"
    /\ UNCHANGED <<now, state_callbacks, running, timers, api_pc, api_call>>
    /\ UNCHANGED <<risk_vars, factory_vars, position_vars, bus_vars, worker_vars, thread_vars, lock_vars>>

\* time.sleep(1) after the for loop, then back to the while test.
MonitorSleep ==
    /\ mon_pc = "scan"
    /\ mon_ids = <<>>
    /\ mon_pc' = "head"
    /\ published' = <<>>
    /\ fired' = <<>>
    /\ ret' = Ret("_monitor_loop:sleep", "-", TRUE, 0)
    /\ UNCHANGED <<now, active_signals, signal_history, stats, state_callbacks, running,
                   lock, timers, api_pc, api_call, mon_ids>>
    /\ UNCHANGED <<risk_vars, factory_vars, position_vars, bus_vars, worker_vars, thread_vars, lock_vars>>

MonitorStep == MonitorExit \/ MonitorSnapshot \/ MonitorCheck \/ MonitorExpire \/ MonitorSleep

-----------------------------------------------------------------------------
(* cleanup_expired, register_state_callback, the clock *)

\* expired_ids of cleanup_expired, in dict order.
ExpiredIds(active, t) ==
    Keys(SelectSeq(active, LAMBDA signal : Expirable(signal, t)))

RECURSIVE CleanupFold(_, _, _)
\* for signal_id in expired_ids: transition_state(signal_id, EXPIRED)
CleanupFold(r, callbacks, ids) ==
    IF ids = <<>> THEN r
    ELSE LET one == TransitionState(r.m, callbacks, Head(ids), "EXPIRED", NoKwargs) IN
         CleanupFold([ok |-> TRUE, m |-> one.m, events |-> r.events \o one.events,
                      fired |-> r.fired \o one.fired],
                     callbacks, Tail(ids))

CleanupExpiredResult(m, callbacks, t) ==
    CleanupFold([ok |-> TRUE, m |-> m, events |-> <<>>, fired |-> <<>>],
                callbacks, ExpiredIds(m.active, t))

CleanupExpired ==
    /\ api_pc = "idle"
    /\ CanAcquire("api")
    /\ ExpiredIds(active_signals, now) # <<>>
    /\ LET r == CleanupExpiredResult(Manager, state_callbacks, now) IN
        /\ SetManager(r.m)
        /\ published' = r.events
        /\ fired' = r.fired
        /\ ret' = Ret("cleanup_expired", "-", TRUE, Len(ExpiredIds(active_signals, now)))
    /\ UNCHANGED <<now, state_callbacks, running, lock, timers, api_pc, api_call,
                   mon_pc, mon_ids>>
    /\ UNCHANGED <<risk_vars, factory_vars, position_vars, bus_vars, worker_vars, thread_vars, lock_vars>>

\* The callbacks that get registered, each at most once.
Callbacks == {"cb1"}

Registered(callbacks) ==
    UNION {{callbacks[state][i] : i \in 1..Len(callbacks[state])} : state \in SignalState}

\* register_state_callback(state, callback): no lock is taken.
RegisterStateCallback(state, callback) ==
    /\ callback \notin Registered(state_callbacks)
    /\ state_callbacks' = [state_callbacks EXCEPT ![state] = Append(@, callback)]
    /\ published' = <<>>
    /\ fired' = <<>>
    /\ ret' = Ret("register_state_callback", "-", TRUE, 0)
    /\ UNCHANGED <<now, active_signals, signal_history, stats, running, lock, timers,
                   api_pc, api_call, mon_pc, mon_ids>>
    /\ UNCHANGED <<risk_vars, factory_vars, position_vars, bus_vars, worker_vars, thread_vars, lock_vars>>

\* The callbacks of which some raise when they are called.
RaisingCallbacks == {"cb1", "cb2"}

\* transition_state(id, new_state, **kwargs) made in one piece by the calling
\* thread, the callbacks in `raising` raising.  ret.count is the number of
\* callbacks of the new state that raise.
TransitionStateRaising(id, new_state, kwargs, raising) ==
    /\ api_pc = "idle"
    /\ CanAcquire("api")
    /\ LET r == TransitionStateCallbacks(Manager, state_callbacks, raising, id, new_state, kwargs) IN
        /\ SetManager(r.m)
        /\ published' = r.events
        /\ fired' = r.fired
        /\ ret' = [op |-> "transition_state:callbacks", signal_id |-> id,
                   new_state |-> new_state, ok |-> r.ok,
                   count |-> Cardinality({i \in 1..Len(state_callbacks[new_state]) :
                                             state_callbacks[new_state][i] \in raising})]
    /\ UNCHANGED <<now, state_callbacks, running, lock, timers, api_pc, api_call, mon_pc, mon_ids>>
    /\ UNCHANGED <<risk_vars, factory_vars, position_vars, bus_vars, worker_vars, thread_vars, lock_vars>>

\* One second passes.
Tick ==
    /\ now < MaxTime
    /\ now' = now + 1
    /\ published' = <<>>
    /\ fired' = <<>>
    /\ ret' = Ret("tick", "-", TRUE, 0)
    /\ UNCHANGED <<active_signals, signal_history, stats, state_callbacks, running, lock,
                   timers, api_pc, api_call, mon_pc, mon_ids>>
    /\ UNCHANGED <<risk_vars, factory_vars, position_vars, bus_vars, worker_vars, thread_vars, lock_vars>>

-----------------------------------------------------------------------------
(* RiskManagementService: application/services/risk_management_service.py. *)
(* Amounts are integers; the drawdown percentage is kept as a fraction and *)
(* the comparisons with fractions of the limits are made exactly.          *)

(* Configuration: the risk limits *)
MaxSignalsPerMinute == 2
MaxSignalsPerHour == 3
MaxConfluencePerHour == 1
ConsecutiveLossesLimit == 2
MaxDrawdownPercent == 2
EmergencyStopLoss == 100
MaxTrades == 2        \* TRADE_CLOSED events per behaviour
MaxRejected == 1      \* rejections counted per behaviour

(* Program constants *)
OneMinute == 60
OneHour == 3600
QualityMaxScore == 46           \* max_score 1.5 + 0.8 + 1.5 + 0.8, in tenths
TimestampsMaxLenAll == 500
TimestampsMaxLenConfluence == 100
TimestampsMaxLenArbitrage == 200
TimestampsMaxLenTapeReading == 300
RiskHistoryMaxLen == 1000

Breakers == {"frequency", "quality", "drawdown", "consecutive_losses", "emergency"}

SignalSource == {"ARBITRAGE", "TAPE_READING", "CONFLUENCE", "SYSTEM", "MANIPULATION",
                 "STRATEGIC", "DIVERGENCE_WARNING"}

SignalLevel == {"INFO", "WARNING", "ALERT"}

\* A Signal, with the entries of `details` that evaluate_signal reads.
RiskSignal(source, level, profit, confirmations, original_pattern, cvd_roc) ==
    [source |-> source, level |-> level, profit |-> profit,
     confirmations |-> confirmations, original_pattern |-> original_pattern,
     cvd_roc |-> cvd_roc]

\* The Signal that _emit_strategic_signal builds, from the confidence in percent.
DisplaySignal(confidence) ==
    RiskSignal("STRATEGIC", IF confidence >= 70 THEN "ALERT" ELSE "WARNING",
               None, None, "", None)

\* The signals submitted for evaluation.
RiskSignals ==
    {RiskSignal("CONFLUENCE", "ALERT", Some(50), Some(3), "ESCORA_DETECTADA", None),
     RiskSignal("ARBITRAGE", "WARNING", Some(20), None, "", None),
     RiskSignal("TAPE_READING", "INFO", None, Some(1), "PRESSAO", Some(200)),
     DisplaySignal(60)}

\* datetime.now().hour at the evaluation.
Hours == {9, 12}

\* pnl of the TRADE_CLOSED events.
TradePnls == {-100, -1, 100}

MaxLenOf(key) ==
    CASE key = "all" -> TimestampsMaxLenAll
      [] key = "confluence" -> TimestampsMaxLenConfluence
      [] key = "arbitrage" -> TimestampsMaxLenArbitrage
      [] key = "tape_reading" -> TimestampsMaxLenTapeReading

TimestampKeys == {"all", "confluence", "arbitrage", "tape_reading"}

\* signal.source.value.lower()
SourceKey(source) ==
    CASE source = "CONFLUENCE" -> "confluence"
      [] source = "ARBITRAGE" -> "arbitrage"
      [] source = "TAPE_READING" -> "tape_reading"
      [] OTHER -> "other"

\* The service's data, as the operators below pass it along.
Risk == [breakers |-> circuit_breakers, metrics |-> performance_metrics,
         timestamps |-> signal_timestamps, history |-> risk_signal_history]

RiskInit ==
    /\ circuit_breakers = [b \in Breakers |-> FALSE]
    /\ performance_metrics =
          [total_signals |-> 0, signals_approved |-> 0, signals_rejected |-> 0,
           consecutive_losses |-> 0, daily_pnl |-> 0, peak_pnl |-> 0,
           current_drawdown |-> [num |-> 0, den |-> 1]]
    /\ signal_timestamps = [k \in TimestampKeys |-> <<>>]
    /\ risk_signal_history = <<>>
    /\ evaluation = None
    /\ trade_count = 0
    /\ emergency_window = FALSE

SetRisk(r) ==
    /\ circuit_breakers' = r.breakers
    /\ performance_metrics' = r.metrics
    /\ signal_timestamps' = r.timestamps
    /\ risk_signal_history' = r.history

\* _calculate_current_risk_level
CalculateCurrentRiskLevel(r) ==
    LET m == r.metrics
        losses == m.consecutive_losses
        dd == m.current_drawdown
        pnl == m.daily_pnl
    IN IF r.breakers["emergency"] THEN "CRITICAL"
       ELSE IF r.breakers["consecutive_losses"] \/ r.breakers["drawdown"] THEN "CRITICAL"
       ELSE IF losses >= ConsecutiveLossesLimit THEN "CRITICAL"
       ELSE IF 10 * losses >= 6 * ConsecutiveLossesLimit THEN "HIGH"
       ELSE IF 10 * losses >= 3 * ConsecutiveLossesLimit THEN "MEDIUM"
       ELSE IF dd.num >= MaxDrawdownPercent * dd.den THEN "CRITICAL"
       ELSE IF 10 * dd.num >= 7 * MaxDrawdownPercent * dd.den THEN "HIGH"
       ELSE IF 10 * dd.num >= 4 * MaxDrawdownPercent * dd.den THEN "MEDIUM"
       ELSE IF pnl <= -EmergencyStopLoss THEN "CRITICAL"
       ELSE IF 2 * pnl <= -EmergencyStopLoss THEN "HIGH"
       ELSE IF 5 * pnl <= -EmergencyStopLoss THEN "MEDIUM"
       ELSE "LOW"

\* _check_circuit_breakers()['all_clear']
AllClear(r) == \A b \in Breakers : ~r.breakers[b]

\* sum(1 for ts in timestamps if ts > t - window)
CountSince(timestamps, t, window) ==
    Cardinality({i \in 1..Len(timestamps) : timestamps[i] > t - window})

\* _check_signal_frequency with each count compared by > instead of >=.
WithinLimitsLoose(r, signal, t) ==
    /\ CountSince(r.timestamps["all"], t, OneMinute) <= MaxSignalsPerMinute
    /\ CountSince(r.timestamps["all"], t, OneHour) <= MaxSignalsPerHour
    /\ signal.source = "CONFLUENCE" =>
          CountSince(r.timestamps["confluence"], t, OneHour) <= MaxConfluencePerHour

\* _check_signal_frequency(signal)['within_limits']
WithinLimits(r, signal, t) ==
    /\ CountSince(r.timestamps["all"], t, OneMinute) < MaxSignalsPerMinute
    /\ CountSince(r.timestamps["all"], t, OneHour) < MaxSignalsPerHour
    /\ signal.source = "CONFLUENCE" =>
          CountSince(r.timestamps["confluence"], t, OneHour) < MaxConfluencePerHour

SignalQualityThreshold == 4     \* signal_quality_threshold 0.4, in tenths

HighQualityPatterns == {"ESCORA_DETECTADA", "DIVERGENCIA_ALTA", "DIVERGENCIA_BAIXA", "ICEBERG"}

\* _evaluate_signal_quality(signal): the score before normalisation, in tenths.
QualityScore(signal) ==
    LET source == CASE signal.source = "CONFLUENCE" -> 15
                    [] signal.source = "ARBITRAGE" -> 12
                    [] signal.source = "TAPE_READING" -> 8
                    [] OTHER -> 4
        level == CASE signal.level = "ALERT" -> 8
                   [] signal.level = "WARNING" -> 5
                   [] OTHER -> 2
        profit == IF signal.profit = None THEN 0
                  ELSE IF signal.profit[1] >= 50 THEN 8
                  ELSE IF signal.profit[1] >= 20 THEN 5
                  ELSE 2
        confirmations == IF signal.confirmations = None THEN 0
                         ELSE IF signal.confirmations[1] >= 3 THEN 7
                         ELSE IF signal.confirmations[1] >= 2 THEN 5
                         ELSE 2
        pattern == IF signal.original_pattern \in HighQualityPatterns THEN 8
                   ELSE IF signal.original_pattern # "" THEN 4
                   ELSE 0
    IN source + level + profit + confirmations + pattern

\* quality['score'] < self.signal_quality_threshold
QualityTooLow(signal) ==
    10 * QualityScore(signal) < SignalQualityThreshold * QualityMaxScore

\* quality['rating']
QualityRating(signal) ==
    LET score == 10 * QualityScore(signal) IN
    IF score >= 8 * QualityMaxScore THEN "EXCELLENT"
    ELSE IF score >= 6 * QualityMaxScore THEN "GOOD"
    ELSE IF score >= 4 * QualityMaxScore THEN "FAIR"
    ELSE "POOR"

Abs(x) == IF x < 0 THEN -x ELSE x

\* _evaluate_contextual_risk(signal)['score'] at the given hour of the day.
ContextualRiskScore(r, signal, hour) ==
    LET level == CalculateCurrentRiskLevel(r)
        dd == r.metrics.current_drawdown
    IN (CASE level = "CRITICAL" -> 3 [] level = "HIGH" -> 2 [] level = "MEDIUM" -> 1
          [] OTHER -> 0)
       + (IF 10 * dd.num > 7 * MaxDrawdownPercent * dd.den THEN 2 ELSE 0)
       + (IF 10 * r.metrics.consecutive_losses >= 7 * ConsecutiveLossesLimit THEN 2 ELSE 0)
       + (IF hour < 10 \/ hour > 16 THEN 1 ELSE 0)
       + (IF signal.cvd_roc # None /\ Abs(signal.cvd_roc[1]) > 150 THEN 1 ELSE 0)

\* _evaluate_contextual_risk(signal)['level']
ContextualRiskLevel(r, signal, hour) ==
    LET risk_score == ContextualRiskScore(r, signal, hour) IN
    IF risk_score >= 4 THEN "CRITICAL"
    ELSE IF risk_score >= 3 THEN "HIGH"
    ELSE IF risk_score >= 2 THEN "MEDIUM"
    ELSE "LOW"

ApprovedEvent(signal) == [topic |-> "SIGNAL_APPROVED", signal |-> signal]

RejectedEvent(signal) == [topic |-> "SIGNAL_REJECTED", signal |-> signal]

GeneratedEvent(signal) == [topic |-> "SIGNAL_GENERATED", signal |-> signal]

\* An entry of the risk service's signal_history.
HistoryEntry(signal, t) == [signal |-> signal, timestamp |-> t]

\* _record_signal_approval: the counters, the timestamps, the history (the
\* approval event is published by the caller of this operator).
RecordSignalApproval(r, signal, t) ==
    LET key == SourceKey(signal.source)
        all == [r.timestamps EXCEPT !["all"] = DequeAppend(@, t, MaxLenOf("all"))]
    IN [r EXCEPT !.metrics.total_signals = @ + 1,
                 !.metrics.signals_approved = @ + 1,
                 !.timestamps =
                    IF key \in TimestampKeys
                    THEN [all EXCEPT ![key] = DequeAppend(@, t, MaxLenOf(key))]
                    ELSE all,
                 !.history = DequeAppend(@, HistoryEntry(signal, t), RiskHistoryMaxLen)]

\* An evaluate_signal(signal) call at the given hour of the day, with the
\* (approved, assessment) pair that it returns.
Evaluation(signal, hour, e) ==
    Some([signal |-> signal, hour |-> hour, approved |-> e.approved,
          risk_level |-> e.risk_level, quality |-> e.quality])

\* evaluate_signal with the quality check made before the frequency check.
EvaluateSignalResultQualityFirst(r, signal, t, hour) ==
    IF ~AllClear(r)
    THEN [approved |-> FALSE, risk_level |-> "CRITICAL", quality |-> "POOR",
          r |-> r, events |-> <<>>]
    ELSE IF QualityTooLow(signal)
    THEN [approved |-> FALSE, risk_level |-> "MEDIUM", quality |-> QualityRating(signal),
          r |-> r, events |-> <<>>]
    ELSE IF ~WithinLimits(r, signal, t)
    THEN [approved |-> FALSE, risk_level |-> "HIGH", quality |-> "POOR",
          r |-> r, events |-> <<>>]
    ELSE IF ContextualRiskLevel(r, signal, hour) \in {"HIGH", "CRITICAL"}
    THEN [approved |-> FALSE, risk_level |-> ContextualRiskLevel(r, signal, hour),
          quality |-> QualityRating(signal), r |-> r, events |-> <<>>]
    ELSE [approved |-> TRUE, risk_level |-> ContextualRiskLevel(r, signal, hour),
          quality |-> QualityRating(signal),
          r |-> RecordSignalApproval(r, signal, t),
          events |-> <<ApprovedEvent(signal)>>]

\* evaluate_signal(signal) at time t and hour of the day `hour`: the
\* assessment, the service's data afterwards, the events published.
EvaluateSignalResult(r, signal, t, hour) ==
    IF ~AllClear(r)
    THEN [approved |-> FALSE, risk_level |-> "CRITICAL", quality |-> "POOR",
          r |-> r, events |-> <<>>]
    ELSE IF ~WithinLimits(r, signal, t)
    THEN [approved |-> FALSE, risk_level |-> "HIGH", quality |-> "POOR",
          r |-> r, events |-> <<>>]
    ELSE IF QualityTooLow(signal)
    THEN [approved |-> FALSE, risk_level |-> "MEDIUM", quality |-> QualityRating(signal),
          r |-> r, events |-> <<>>]
    ELSE IF ContextualRiskLevel(r, signal, hour) \in {"HIGH", "CRITICAL"}
    THEN [approved |-> FALSE, risk_level |-> ContextualRiskLevel(r, signal, hour),
          quality |-> QualityRating(signal), r |-> r, events |-> <<>>]
    ELSE [approved |-> TRUE, risk_level |-> ContextualRiskLevel(r, signal, hour),
          quality |-> QualityRating(signal),
          r |-> RecordSignalApproval(r, signal, t),
          events |-> <<ApprovedEvent(signal)>>]

\* _handle_signal_generated(signal): evaluates; counts and publishes a rejection.
HandleSignalGeneratedResult(r, signal, t, hour) ==
    LET e == EvaluateSignalResult(r, signal, t, hour) IN
    IF e.approved THEN e
    ELSE [e EXCEPT !.r.metrics.signals_rejected = @ + 1,
                   !.events = e.events \o <<RejectedEvent(signal)>>]

\* _process_signal_with_risk(signal) of the orchestration: evaluate_signal,
\* and for an approved signal the publish of SIGNAL_GENERATED, inside which
\* the risk service's own subscriber, _handle_signal_generated, evaluates
\* the signal again.  `approved` is what the first evaluation returned.
ProcessSignalWithRiskResult(r, signal, t, hour) ==
    LET first == EvaluateSignalResult(r, signal, t, hour)
        second == HandleSignalGeneratedResult(first.r, signal, t, hour)
    IN IF ~first.approved THEN first
       ELSE [first EXCEPT !.r = second.r,
                          !.events = first.events \o <<GeneratedEvent(signal)>>
                                        \o second.events]

\* _update_circuit_breakers with the streak compared by > instead of >=.
UpdateCircuitBreakersLate(r) ==
    LET m == r.metrics IN
    [r EXCEPT !.breakers["consecutive_losses"] =
                  m.consecutive_losses > ConsecutiveLossesLimit,
              !.breakers["drawdown"] =
                  m.current_drawdown.num >= MaxDrawdownPercent * m.current_drawdown.den,
              !.breakers["emergency"] = m.daily_pnl <= -EmergencyStopLoss]

\* _update_circuit_breakers
UpdateCircuitBreakers(r) ==
    LET m == r.metrics IN
    [r EXCEPT !.breakers["consecutive_losses"] =
                  m.consecutive_losses >= ConsecutiveLossesLimit,
              !.breakers["drawdown"] =
                  m.current_drawdown.num >= MaxDrawdownPercent * m.current_drawdown.den,
              !.breakers["emergency"] = m.daily_pnl <= -EmergencyStopLoss]

\* A handler that counts the losses and never clears the streak.
HandleTradeClosedResultKeepsStreak(r, pnl) ==
    LET daily_pnl == r.metrics.daily_pnl + pnl
        peak_pnl == IF daily_pnl > r.metrics.peak_pnl THEN daily_pnl ELSE r.metrics.peak_pnl
        drawdown == peak_pnl - daily_pnl
        drawdown_pct == IF peak_pnl > 0 THEN [num |-> drawdown * 100, den |-> peak_pnl]
                        ELSE [num |-> 0, den |-> 1]
    IN UpdateCircuitBreakers(
          [r EXCEPT !.metrics.daily_pnl = daily_pnl,
                    !.metrics.peak_pnl = peak_pnl,
                    !.metrics.current_drawdown = drawdown_pct,
                    !.metrics.consecutive_losses = IF pnl < 0 THEN @ + 1 ELSE @])

\* _handle_trade_closed({'pnl': pnl})
HandleTradeClosedResult(r, pnl) ==
    LET daily_pnl == r.metrics.daily_pnl + pnl
        peak_pnl == IF daily_pnl > r.metrics.peak_pnl THEN daily_pnl ELSE r.metrics.peak_pnl
        drawdown == peak_pnl - daily_pnl
        drawdown_pct == IF peak_pnl > 0 THEN [num |-> drawdown * 100, den |-> peak_pnl]
                        ELSE [num |-> 0, den |-> 1]
    IN UpdateCircuitBreakers(
          [r EXCEPT !.metrics.daily_pnl = daily_pnl,
                    !.metrics.peak_pnl = peak_pnl,
                    !.metrics.current_drawdown = drawdown_pct,
                    !.metrics.consecutive_losses = IF pnl < 0 THEN @ + 1 ELSE 0])

OneDay == 86400

\* reset_daily_metrics that clears every breaker and the loss streak too.
ResetDailyMetricsResultClearsAll(r, t) ==
    [r EXCEPT !.metrics.daily_pnl = 0,
              !.metrics.peak_pnl = 0,
              !.metrics.current_drawdown = [num |-> 0, den |-> 1],
              !.metrics.consecutive_losses = 0,
              !.breakers = [b \in Breakers |-> FALSE],
              !.timestamps = [k \in TimestampKeys |->
                                 SelectSeq(r.timestamps[k], LAMBDA ts : ts > t - OneDay)]]

\* reset_daily_metrics() at time t
ResetDailyMetricsResult(r, t) ==
    [r EXCEPT !.metrics.daily_pnl = 0,
              !.metrics.peak_pnl = 0,
              !.metrics.current_drawdown = [num |-> 0, den |-> 1],
              !.breakers["emergency"] = FALSE,
              !.timestamps = [k \in TimestampKeys |->
                                 SelectSeq(r.timestamps[k], LAMBDA ts : ts > t - OneDay)]]

OverrideEvent(breaker, old_state, new_state) ==
    [topic |-> "RISK_OVERRIDE", breaker |-> breaker, old_state |-> old_state,
     new_state |-> new_state]

\* manual_override(breaker, active)
ManualOverrideResult(r, breaker, active) ==
    IF breaker \in Breakers
    THEN [r |-> [r EXCEPT !.breakers[breaker] = active],
          events |-> <<OverrideEvent(breaker, r.breakers[breaker], active)>>]
    ELSE [r |-> r, events |-> <<>>]

\* The risk service's steps leave the lifecycle manager's data alone and
\* record what they published and returned.
RiskStep(r, events, op, ok) ==
    /\ SetRisk(r)
    /\ emergency_window' =
          IF op = "reset_daily_metrics" \/ (op = "manual_override:emergency")
          THEN r.breakers["emergency"]
          ELSE emergency_window \/ r.breakers["emergency"]
    /\ published' = events
    /\ fired' = <<>>
    /\ ret' = Ret(op, "-", ok, 0)
    /\ UNCHANGED <<now, active_signals, signal_history, stats, state_callbacks, running,
                   lock, timers, api_pc, api_call, mon_pc, mon_ids>>
    /\ UNCHANGED <<factory_vars, position_vars, bus_vars, worker_vars, thread_vars, lock_vars>>

\* A caller evaluates a signal.
EvaluateSignal(signal, hour) ==
    LET e == EvaluateSignalResult(Risk, signal, now, hour) IN
    /\ RiskStep(e.r, e.events, "evaluate_signal", e.approved)
    /\ evaluation' = Evaluation(signal, hour, e)
    /\ UNCHANGED trade_count

\* SIGNAL_GENERATED is published with the signal.
HandleSignalGenerated(signal, hour) ==
    LET e == HandleSignalGeneratedResult(Risk, signal, now, hour) IN
    /\ performance_metrics.signals_rejected < MaxRejected
    /\ RiskStep(e.r, e.events, "_handle_signal_generated", e.approved)
    /\ evaluation' = Evaluation(signal, hour, e)
    /\ UNCHANGED trade_count

\* A tactical signal goes through the orchestration's risk gate.
ProcessSignalWithRisk(signal, hour) ==
    LET e == ProcessSignalWithRiskResult(Risk, signal, now, hour) IN
    /\ performance_metrics.signals_rejected < MaxRejected
    /\ RiskStep(e.r, e.events, "_process_signal_with_risk", e.approved)
    /\ evaluation' = Evaluation(signal, hour, e)
    /\ UNCHANGED trade_count

\* TRADE_CLOSED is published with the pnl.
HandleTradeClosed(pnl) ==
    /\ trade_count < MaxTrades
    /\ trade_count' = trade_count + 1
    /\ RiskStep(HandleTradeClosedResult(Risk, pnl), <<>>, "_handle_trade_closed", TRUE)
    /\ evaluation' = None

ResetDailyMetrics ==
    /\ RiskStep(ResetDailyMetricsResult(Risk, now), <<>>, "reset_daily_metrics", TRUE)
    /\ evaluation' = None
    /\ UNCHANGED trade_count

ManualOverride(breaker, active) ==
    LET o == ManualOverrideResult(Risk, breaker, active) IN
    /\ RiskStep(o.r, o.events, "manual_override:" \o breaker, breaker \in Breakers)
    /\ evaluation' = None
    /\ UNCHANGED trade_count

-----------------------------------------------------------------------------
(* StrategicSignalService.create_strategic_signal:                         *)
(* application/services/strategic_signal_service.py.  Confidence is in     *)
(* percent.                                                                *)

(* Program constants: confluence_config *)
ConfluenceTimeout == 10
ConfidenceBoost == 15
ConfidencePenalty == 20
MinConfidence == 50
AlignmentWindow == 30

Symbols == {"WDO", "DOL"}

\* context_filters.apply_all(signal, context): passed, confidence multiplier
\* (percent).  The basic check alone passes with score 1.0 or 0.6 (low
\* risk/reward); a failed basic check gives the multiplier 0.5.
FilterResults == {[passed |-> TRUE, confidence_multiplier |-> 100],
                  [passed |-> TRUE, confidence_multiplier |-> 60],
                  [passed |-> FALSE, confidence_multiplier |-> 50]}

\* str(uuid.uuid4()): the n-th id handed out.
Uuid(n) == "u" \o ToString(n)

FactoryInit ==
    /\ pending_confluence = [symbol \in Symbols |-> None]
    /\ service_stats = [signals_created |-> 0, signals_filtered |-> 0,
                        confluence_matches |-> 0, confluence_conflicts |-> 0,
                        signals_executed |-> 0]
    /\ uuids = 0
    /\ candidate = None
    /\ consumed = {}

\* The service's data, as the operators below pass it along.
Factory == [pending |-> pending_confluence, stats |-> service_stats]

\* The StrategicSignal that create_strategic_signal builds at time t.
StrategicSignal(id, setup_type, symbol, direction, entry_price, confidence, t) ==
    [id |-> id, symbol |-> symbol, setup_type |-> setup_type, direction |-> direction,
     state |-> "PENDING", expiration_time |-> t + 300,
     execution_price |-> None, exit_price |-> None, pnl |-> None,
     entry_price |-> entry_price, confidence |-> confidence,
     conflict_status |-> "NO_CONFLICT", timestamp |-> t]

Min(a, b) == IF a < b THEN a ELSE b

\* compatible_setups of _analyze_confluence
CompatibleSetups(setup_type) ==
    CASE setup_type = "REVERSAL_SLOW" -> {"REVERSAL_SLOW", "DIVERGENCE_SETUP"}
      [] setup_type = "REVERSAL_VIOLENT" -> {"REVERSAL_VIOLENT", "REVERSAL_SLOW"}
      [] setup_type = "BREAKOUT_IGNITION" -> {"BREAKOUT_IGNITION", "PULLBACK_REJECTION"}
      [] setup_type = "PULLBACK_REJECTION" -> {"PULLBACK_REJECTION", "BREAKOUT_IGNITION"}
      [] setup_type = "DIVERGENCE_SETUP" -> {"DIVERGENCE_SETUP", "REVERSAL_SLOW"}
      [] OTHER -> {}

\* _analyze_confluence(signal1, signal2)['details']['reason'], "" when the
\* details have none.
AnalyzeConfluenceReason(signal1, signal2) ==
    IF signal1.direction # signal2.direction THEN "Direções opostas"
    ELSE IF 20000 * Abs(signal1.entry_price - signal2.entry_price)
               > 5 * (signal1.entry_price + signal2.entry_price)
    THEN "Divergência de preços"
    ELSE IF signal2.setup_type \notin CompatibleSetups(signal1.setup_type)
    THEN "Setups incompatíveis"
    ELSE IF Abs(signal1.timestamp - signal2.timestamp) > AlignmentWindow
    THEN "Sinais defasados no tempo"
    ELSE ""

\* An analysis that looks at the prices before the directions.
AnalyzeConfluencePriceFirst(signal1, signal2) ==
    IF 20000 * Abs(signal1.entry_price - signal2.entry_price)
          > 5 * (signal1.entry_price + signal2.entry_price)
    THEN "MINOR_CONFLICT"
    ELSE IF signal1.direction # signal2.direction THEN "MAJOR_CONFLICT"
    ELSE IF signal2.setup_type \notin CompatibleSetups(signal1.setup_type)
    THEN "MINOR_CONFLICT"
    ELSE IF Abs(signal1.timestamp - signal2.timestamp) > AlignmentWindow
    THEN "MINOR_CONFLICT"
    ELSE "NO_CONFLICT"

\* _analyze_confluence(signal1, signal2)['status']; the price divergence
\* |p1 - p2| / ((p1 + p2) / 2) is compared with 0.0005 exactly.
AnalyzeConfluence(signal1, signal2) ==
    IF signal1.direction # signal2.direction THEN "MAJOR_CONFLICT"
    ELSE IF 20000 * Abs(signal1.entry_price - signal2.entry_price)
               > 5 * (signal1.entry_price + signal2.entry_price)
    THEN "MINOR_CONFLICT"
    ELSE IF signal2.setup_type \notin CompatibleSetups(signal1.setup_type)
    THEN "MINOR_CONFLICT"
    ELSE IF Abs(signal1.timestamp - signal2.timestamp) > AlignmentWindow
    THEN "MINOR_CONFLICT"
    ELSE "NO_CONFLICT"

OtherSymbol(symbol) == IF symbol = "WDO" THEN "DOL" ELSE "WDO"

\* (datetime.now() - other_data['timestamp']).seconds > timeout_seconds
PairTimedOut(entry, t) == (t - entry.timestamp) % OneDay > ConfluenceTimeout

\* _check_confluence that leaves the compared candidate in the pending cache.
CheckConfluenceKeepsSlot(pending, signal, t) ==
    LET other == OtherSymbol(signal.symbol)
        wait(p) == [status |-> "NO_CONFLICT", waiting_pair |-> TRUE, compared |-> None,
                    pending |-> [p EXCEPT ![signal.symbol] =
                                    Some([signal |-> signal, timestamp |-> t])]]
    IN IF pending[other] # None
       THEN IF PairTimedOut(pending[other][1], t)
            THEN wait([pending EXCEPT ![other] = None])
            ELSE [status |-> AnalyzeConfluence(signal, pending[other][1].signal),
                  waiting_pair |-> FALSE,
                  compared |-> Some(pending[other][1].signal.id),
                  pending |-> pending]
       ELSE wait(pending)

\* _check_confluence that stores the candidate without first removing the
\* timed-out candidate of the other symbol.
CheckConfluenceKeepsStale(pending, signal, t) ==
    LET other == OtherSymbol(signal.symbol)
        wait(p) == [status |-> "NO_CONFLICT", waiting_pair |-> TRUE, compared |-> None,
                    pending |-> [p EXCEPT ![signal.symbol] =
                                    Some([signal |-> signal, timestamp |-> t])]]
    IN IF pending[other] # None
       THEN IF PairTimedOut(pending[other][1], t)
            THEN wait(pending)
            ELSE [status |-> AnalyzeConfluence(signal, pending[other][1].signal),
                  waiting_pair |-> FALSE,
                  compared |-> Some(pending[other][1].signal.id),
                  pending |-> [pending EXCEPT ![other] = None]]
       ELSE wait(pending)

\* _check_confluence(signal) at time t: the status, whether the signal was
\* stored to wait for its pair, the pending candidate it was compared with
\* (if any), and the pending cache.
CheckConfluence(pending, signal, t) ==
    LET other == OtherSymbol(signal.symbol)
        wait(p) == [status |-> "NO_CONFLICT", waiting_pair |-> TRUE, compared |-> None,
                    pending |-> [p EXCEPT ![signal.symbol] =
                                    Some([signal |-> signal, timestamp |-> t])]]
    IN IF pending[other] # None
       THEN IF PairTimedOut(pending[other][1], t)
            THEN wait([pending EXCEPT ![other] = None])
            ELSE [status |-> AnalyzeConfluence(signal, pending[other][1].signal),
                  waiting_pair |-> FALSE,
                  compared |-> Some(pending[other][1].signal.id),
                  pending |-> [pending EXCEPT ![other] = None]]
       ELSE wait(pending)

\* The outcome of create_strategic_signal when it returns None (the signal
\* is filtered out) or raises: no signal registered, nothing published.
Filtered(m, r, f, confluence) ==
    [created |-> FALSE, m |-> m, r |-> r, f |-> f, events |-> <<>>, timer |-> EmptyBag,
     evaluation |-> None, confluence |-> confluence, signal |-> None]

\* The confidence after a NO_CONFLICT result, without the clamp to 1.0.
BoostedUnclamped(confidence) == confidence + ConfidenceBoost

\* min(signal.confidence + confidence_boost, 1.0)
Boosted(confidence) == Min(confidence + ConfidenceBoost, 100)

\* The pending cache holds the signal object itself: the entry stored by
\* this call carries the confidence and the conflict status set afterwards.
StoreFinal(pending, signal) ==
    IF pending[signal.symbol] # None /\ pending[signal.symbol][1].signal.id = signal.id
    THEN [pending EXCEPT ![signal.symbol] = Some([@[1] EXCEPT !.signal = signal])]
    ELSE pending

\* create_strategic_signal at time t: the StrategicSignal constructor (which
\* refuses a confidence outside [0, 1]), context filters, confidence,
\* confluence, registration with the lifecycle manager, then
\* SIGNAL_GENERATED, which the risk service's _handle_signal_generated
\* receives.  m, r, f are the data of the lifecycle manager, the risk
\* service and this service.
CreateStrategicSignalResult(m, r, f, id, setup_type, symbol, direction, entry_price, confidence, filter_results, t, hour) ==
    LET signal == StrategicSignal(id, setup_type, symbol, direction, entry_price,
                                  confidence, t)
    IN IF confidence < 0 \/ confidence > 100
       THEN Filtered(m, r, f, None)
       ELSE IF ~filter_results.passed
       THEN Filtered(m, r, [f EXCEPT !.stats.signals_filtered = @ + 1], None)
       ELSE
       LET adjusted == Min((confidence * filter_results.confidence_multiplier) \div 100, 100)
           confluence == CheckConfluence(f.pending, [signal EXCEPT !.confidence = adjusted], t)
           final == CASE confluence.status = "NO_CONFLICT" -> Boosted(adjusted)
                      [] confluence.status = "MAJOR_CONFLICT" ->
                            (adjusted * (100 - ConfidencePenalty)) \div 100
                      [] OTHER -> adjusted
           result == [signal EXCEPT !.confidence = final,
                                    !.conflict_status = confluence.status]
           seen == Some([status |-> confluence.status,
                         waiting_pair |-> confluence.waiting_pair,
                         compared |-> confluence.compared,
                         adjusted |-> adjusted])
           f1 == [f EXCEPT !.pending = StoreFinal(confluence.pending, result),
                           !.stats.confluence_matches =
                               IF confluence.status = "NO_CONFLICT" THEN @ + 1 ELSE @,
                           !.stats.confluence_conflicts =
                               IF confluence.status = "MAJOR_CONFLICT" THEN @ + 1 ELSE @]
       IN IF confluence.status = "MAJOR_CONFLICT" /\ final < MinConfidence
          THEN Filtered(m, r, f1, seen)
          ELSE
          LET created == CreateSignalResult(m, result, t)
              display == DisplaySignal(final)
              handled == HandleSignalGeneratedResult(r, display, t, hour)
          IN [created |-> TRUE,
              m |-> created.m,
              r |-> handled.r,
              f |-> [f1 EXCEPT !.stats.signals_created = @ + 1],
              events |-> created.events \o <<GeneratedEvent(display)>> \o handled.events,
              timer |-> created.timer,
              evaluation |-> Evaluation(display, hour, handled),
              confluence |-> seen,
              signal |-> Some(result)]

\* The create_strategic_signal call as the step records it.
Candidate(symbol, confidence, filter_results, c) ==
    Some([symbol |-> symbol, confidence |-> confidence,
          confidence_multiplier |-> filter_results.confidence_multiplier,
          confluence |-> c.confluence, signal |-> c.signal])

\* A detector's signal reaches create_strategic_signal; at most `max` do.
CreateStrategicSignalUpTo(setup_type, symbol, direction, entry_price, confidence, filter_results, hour, max) ==
    /\ api_pc = "idle"
    /\ CanAcquire("api")
    /\ uuids < max
    /\ LET id == Uuid(uuids + 1)
           c == CreateStrategicSignalResult(Manager, Risk, Factory, id, setup_type, symbol,
                                            direction, entry_price, confidence,
                                            filter_results, now, hour)
       IN /\ SetManager(c.m)
          /\ SetRisk(c.r)
          /\ pending_confluence' = c.f.pending
          /\ service_stats' = c.f.stats
          /\ published' = c.events
          /\ timers' = timers (+) c.timer
          /\ evaluation' = c.evaluation
          /\ candidate' = Candidate(symbol, confidence, filter_results, c)
          /\ consumed' = IF c.confluence # None /\ c.confluence[1].compared # None
                         THEN consumed \cup {c.confluence[1].compared[1]}
                         ELSE consumed
          /\ ret' = Ret("create_strategic_signal", id, c.created, 0)
    /\ uuids' = uuids + 1
    /\ fired' = <<>>
    /\ UNCHANGED <<now, state_callbacks, running, lock, api_pc, api_call, mon_pc, mon_ids,
                   trade_count, emergency_window, position_vars, bus_vars, worker_vars, thread_vars, lock_vars>>

\* A detector's signal reaches create_strategic_signal.
CreateStrategicSignal(setup_type, symbol, direction, entry_price, confidence, filter_results, hour) ==
    CreateStrategicSignalUpTo(setup_type, symbol, direction, entry_price, confidence, filter_results, hour, MaxCreated)

\* risk_reward = reward / risk if risk > 0 else 0, with
\* risk = abs(entry_price - stop_loss) and
\* reward = abs(targets[0] - entry_price) if targets else risk: whether the
\* quotient is above zero.
RiskRewardPositive(entry_price, stop_loss, targets) ==
    LET risk == Abs(entry_price - stop_loss)
        reward == IF targets # <<>> THEN Abs(targets[1] - entry_price) ELSE risk
    IN risk > 0 /\ reward > 0

\* The StrategicSignal constructor raises pydantic's ValidationError:
\* entry_price, stop_loss and risk_reward are Field(gt=0), confidence is
\* Field(ge=0, le=1).
ValidationError(entry_price, stop_loss, targets, confidence) ==
    \/ entry_price <= 0
    \/ stop_loss <= 0
    \/ confidence < 0 \/ confidence > 100
    \/ ~RiskRewardPositive(entry_price, stop_loss, targets)

\* create_strategic_signal with the stop and the targets of the proposal:
\* the constructor is not inside a try block, so its ValidationError leaves
\* the call; otherwise the call goes on as CreateStrategicSignalResult.
ProposedSignalResult(m, r, f, id, p, filter_results, t, hour) ==
    IF ValidationError(p.entry_price, p.stop_loss, p.targets, p.confidence)
    THEN [raised |-> TRUE, c |-> Filtered(m, r, f, None)]
    ELSE [raised |-> FALSE,
          c |-> CreateStrategicSignalResult(m, r, f, id, p.setup_type, p.symbol, p.direction,
                                            p.entry_price, p.confidence, filter_results,
                                            t, hour)]

\* A proposal p reaches create_strategic_signal; at most `max` do.  The
\* step records the proposal, the pending candidate of the other symbol
\* when the call was made, the reason _analyze_confluence gave if it
\* compared the two, whether the call raised and what it returned.
CreateProposedSignal(p, filter_results, hour, max) ==
    /\ api_pc = "idle"
    /\ CanAcquire("api")
    /\ uuids < max
    /\ LET id == Uuid(uuids + 1)
           o == ProposedSignalResult(Manager, Risk, Factory, id, p, filter_results, now, hour)
           c == o.c
           partner == pending_confluence[OtherSymbol(p.symbol)]
           reason == IF c.confluence # None /\ c.confluence[1].compared # None
                     THEN AnalyzeConfluenceReason(
                              StrategicSignal(id, p.setup_type, p.symbol, p.direction,
                                              p.entry_price, p.confidence, now),
                              partner[1].signal)
                     ELSE ""
       IN /\ SetManager(c.m)
          /\ SetRisk(c.r)
          /\ pending_confluence' = c.f.pending
          /\ service_stats' = c.f.stats
          /\ published' = c.events
          /\ timers' = timers (+) c.timer
          /\ evaluation' = c.evaluation
          /\ candidate' = Some([symbol |-> p.symbol, confidence |-> p.confidence,
                                setup_type |-> p.setup_type, direction |-> p.direction,
                                entry_price |-> p.entry_price, stop_loss |-> p.stop_loss,
                                timestamp |-> now, partner |-> partner, reason |-> reason,
                                passed |-> filter_results.passed,
                                confidence_multiplier |-> filter_results.confidence_multiplier,
                                confluence |-> c.confluence, signal |-> c.signal,
                                raised |-> o.raised])
          /\ consumed' = IF c.confluence # None /\ c.confluence[1].compared # None
                         THEN consumed \cup {c.confluence[1].compared[1]}
                         ELSE consumed
          /\ ret' = Ret("create_strategic_signal", id, c.created, 0)
    /\ uuids' = uuids + 1
    /\ fired' = <<>>
    /\ UNCHANGED <<now, state_callbacks, running, lock, api_pc, api_call, mon_pc, mon_ids,
                   trade_count, emergency_window, position_vars, bus_vars, worker_vars, thread_vars, lock_vars>>

\* _handle_market_update: MARKET_DATA_UPDATED drops the pending candidates
\* that have timed out.
HandleMarketUpdate ==
    /\ pending_confluence' =
          [symbol \in Symbols |->
              IF pending_confluence[symbol] # None
                 /\ PairTimedOut(pending_confluence[symbol][1], now)
              THEN None ELSE pending_confluence[symbol]]
    /\ published' = <<>>
    /\ fired' = <<>>
    /\ ret' = Ret("_handle_market_update", "-", TRUE, 0)
    /\ UNCHANGED <<now, active_signals, signal_history, stats, state_callbacks, running,
                   lock, timers, api_pc, api_call, mon_pc, mon_ids>>
    /\ UNCHANGED <<risk_vars, service_stats, uuids, candidate, consumed, position_vars, bus_vars, worker_vars, thread_vars, lock_vars>>

-----------------------------------------------------------------------------
\* The state after the construction of the three services.
-----------------------------------------------------------------------------
(* PositionManager: application/services/position_manager.py.  A Position  *)
(* keeps the fields that the handlers read; prices are integers.           *)

(* Configuration *)
MaxPositions == 2     \* max_positions
MaxOpened == 2        \* positions opened per behaviour
MaxWarnings == 2      \* warnings received by a position before no more arrive

(* Program constants *)
DefaultSize == 1
PositionPointValue == 10
ClosedMaxLen == 100

\* The signals of the events: a WDO purchase and a DOL sale.
PositionSignal(id, exit_price) ==
    [id |-> id,
     symbol |-> IF id = "s1" THEN "WDO" ELSE "DOL",
     setup_type |-> IF id = "s1" THEN "REVERSAL_VIOLENT" ELSE "BREAKOUT_IGNITION",
     direction |-> IF id = "s1" THEN "COMPRA" ELSE "VENDA",
     confidence |-> IF id = "s1" THEN 70 ELSE 90,
     entry_price |-> 5000,
     execution_price |-> None,
     stop_loss |-> IF id = "s1" THEN 4984 ELSE 5016,
     targets |-> IF id = "s1" THEN <<5016>> ELSE <<4984>>,
     exit_price |-> exit_price]

PositionSignalIds == {"s1", "s2"}

\* The last trade prices of a market update.
MarketPrices == {4992, 5016}

\* The price a signal leaves at when it reaches the state.
ExitPrice(id, new_state) ==
    IF new_state = "STOPPED" THEN Some(PositionSignal(id, None).stop_loss)
    ELSE IF new_state = "TARGET_HIT" THEN Some(PositionSignal(id, None).targets[1])
    ELSE None

\* The state changes of a signal that reach the position manager, each with
\* the exit price that the transition gave the signal.
StateChanges ==
    {[signal |-> PositionSignal(id, ExitPrice(id, new_state)), new_state |-> new_state] :
        id \in PositionSignalIds,
        new_state \in {"ACTIVE", "EXECUTED", "STOPPED", "TARGET_HIT"}}

PositionStatKeys == {"total_opened", "total_closed", "total_stopped", "total_target_hit",
                     "total_pnl", "win_count", "loss_count"}

PositionInit ==
    /\ positions = <<>>
    /\ signal_to_position = <<>>
    /\ closed_positions = <<>>
    /\ position_stats = [k \in PositionStatKeys |-> 0]

\* The position manager's data, as the operators below pass it along.
Positions == [positions |-> positions, signal_to_position |-> signal_to_position,
              closed |-> closed_positions, stats |-> position_stats]

SetPositions(pm) ==
    /\ positions' = pm.positions
    /\ signal_to_position' = pm.signal_to_position
    /\ closed_positions' = pm.closed
    /\ position_stats' = pm.stats

\* can_open_position with no ceiling at all.
CanOpenPositionAlways(pm) == Len(pm.positions) < Len(pm.positions) + 1

\* can_open_position
CanOpenPosition(pm) == Len(pm.positions) < MaxPositions

\* f"POS_{signal.symbol}_{datetime.now().strftime('%Y%m%d_%H%M%S')}"
PositionId(symbol, t) == "POS_" \o symbol \o "_" \o ToString(t)

\* _calculate_position_size: int() truncates.
CalculatePositionSize(signal) ==
    LET by_confidence ==
           IF signal.confidence > 80 THEN (DefaultSize * 15) \div 10
           ELSE IF signal.confidence < 60
           THEN (IF (DefaultSize * 7) \div 10 > 1 THEN (DefaultSize * 7) \div 10 ELSE 1)
           ELSE DefaultSize
    IN IF signal.setup_type = "REVERSAL_VIOLENT"
       THEN (IF (by_confidence * 8) \div 10 > 1 THEN (by_confidence * 8) \div 10 ELSE 1)
       ELSE IF signal.setup_type = "BREAKOUT_IGNITION"
       THEN (by_confidence * 12) \div 10
       ELSE by_confidence

\* Position.update_price
UpdatePrice(position, price) ==
    LET pnl_points == IF position.direction = "COMPRA" THEN price - position.entry_price
                      ELSE position.entry_price - price
    IN [position EXCEPT !.current_price = Some(price),
                        !.pnl_points = pnl_points,
                        !.pnl = pnl_points * position.size * PositionPointValue]

\* Position.should_stop
ShouldStop(position) ==
    IF position.direction = "COMPRA"
    THEN position.current_price[1] <= position.stop_loss
    ELSE position.current_price[1] >= position.stop_loss

\* Position.check_targets() is not None
TargetsHit(position) ==
    {i \in 1..Len(position.targets) :
        IF position.direction = "COMPRA"
        THEN position.current_price[1] >= position.targets[i]
        ELSE position.current_price[1] <= position.targets[i]}

\* Position.check_targets(): the index of the first target hit.
CheckTargets(position) ==
    CHOOSE i \in TargetsHit(position) : \A j \in TargetsHit(position) : i <= j

\* The closing reasons that start with "TARGET".
TargetReasons == {"TARGET_HIT"} \cup {"TARGET_" \o ToString(i) : i \in 1..3}

OpenedEvent(position) == [topic |-> "POSITION_OPENED", position |-> position.id]

ClosedEvent(position, reason) ==
    [topic |-> "POSITION_CLOSED", position |-> position.id,
     signal_id |-> position.signal_id, exit_price |-> position.current_price,
     reason |-> reason, pnl |-> position.pnl]

\* What a handler's body leaves: the data, the events, whether it raised.
Handled(pm, events, raised) == [pm |-> pm, events |-> events, raised |-> raised]

\* _open_position(signal) at time t.  Two positions of a symbol opened in
\* the same second get the same id: the second replaces the first.
OpenPosition(pm, signal, t) ==
    IF ~CanOpenPosition(pm) THEN Handled(pm, <<>>, FALSE)
    ELSE
    LET entry == IF signal.execution_price # None /\ signal.execution_price[1] # 0
                 THEN signal.execution_price[1] ELSE signal.entry_price
        position == [id |-> PositionId(signal.symbol, t), signal_id |-> signal.id,
                     symbol |-> signal.symbol, direction |-> signal.direction,
                     entry_price |-> entry, size |-> CalculatePositionSize(signal),
                     stop_loss |-> signal.stop_loss, targets |-> signal.targets,
                     current_price |-> Some(entry), pnl |-> 0, pnl_points |-> 0,
                     status |-> "OPEN", warnings_received |-> <<>>]
    IN Handled([pm EXCEPT !.positions = Put(@, position),
                          !.signal_to_position =
                              Put(@, [id |-> signal.id, position_id |-> position.id]),
                          !.stats["total_opened"] = @ + 1],
               <<OpenedEvent(position)>>, FALSE)

\* _close_position(position, reason, exit_price).  Without an exit price
\* update_price raises on the subtraction, after the status and the current
\* price were assigned: the position stays in the map.
ClosePosition(pm, id, reason, exit_price) ==
    LET position == Get(pm.positions, id)
        status == IF reason = "STOP_LOSS" THEN "STOPPED" ELSE "CLOSED"
    IN IF exit_price = None
       THEN Handled([pm EXCEPT !.positions =
                        Put(@, [position EXCEPT !.status = status,
                                                !.current_price = None])],
                    <<>>, TRUE)
       ELSE
       LET closed == UpdatePrice([position EXCEPT !.status = status], exit_price[1])
           target == reason \in TargetReasons
       IN Handled(
             [pm EXCEPT
                 !.positions = Del(@, id),
                 !.signal_to_position =
                     IF Has(@, position.signal_id) THEN Del(@, position.signal_id) ELSE @,
                 !.closed = DequeAppend(@, id, ClosedMaxLen),
                 !.stats["total_closed"] = @ + 1,
                 !.stats["total_pnl"] = @ + closed.pnl,
                 !.stats["total_stopped"] = IF reason = "STOP_LOSS" THEN @ + 1 ELSE @,
                 !.stats["total_target_hit"] = IF target THEN @ + 1 ELSE @,
                 !.stats["win_count"] = IF closed.pnl > 0 THEN @ + 1 ELSE @,
                 !.stats["loss_count"] = IF closed.pnl > 0 THEN @ ELSE @ + 1],
             <<ClosedEvent(closed, reason)>>, FALSE)

\* The body of _handle_signal_state_changed, under the lock.
SignalStateChangedResult(pm, signal, new_state, t) ==
    IF new_state = "EXECUTED" /\ CanOpenPosition(pm)
    THEN OpenPosition(pm, signal, t)
    ELSE IF Has(pm.signal_to_position, signal.id)
            /\ Has(pm.positions, Get(pm.signal_to_position, signal.id).position_id)
    THEN LET id == Get(pm.signal_to_position, signal.id).position_id IN
         IF new_state = "STOPPED"
         THEN ClosePosition(pm, id, "SIGNAL_STOPPED", signal.exit_price)
         ELSE IF new_state = "TARGET_HIT"
         THEN ClosePosition(pm, id, "TARGET_HIT", signal.exit_price)
         ELSE Handled(pm, <<>>, FALSE)
    ELSE Handled(pm, <<>>, FALSE)

\* _handle_signal_expired that also closes a position that is at break-even.
SignalExpiredResultAtZero(pm, signal) ==
    IF Has(pm.signal_to_position, signal.id)
       /\ Has(pm.positions, Get(pm.signal_to_position, signal.id).position_id)
    THEN LET position == Get(pm.positions, Get(pm.signal_to_position, signal.id).position_id)
         IN IF position.pnl <= 0
            THEN ClosePosition(pm, position.id, "SIGNAL_EXPIRED", position.current_price)
            ELSE Handled(pm, <<>>, FALSE)
    ELSE Handled(pm, <<>>, FALSE)

\* The body of _handle_signal_expired, under the lock.
SignalExpiredResult(pm, signal) ==
    IF Has(pm.signal_to_position, signal.id)
       /\ Has(pm.positions, Get(pm.signal_to_position, signal.id).position_id)
    THEN LET position == Get(pm.positions, Get(pm.signal_to_position, signal.id).position_id)
         IN IF position.pnl < 0
            THEN ClosePosition(pm, position.id, "SIGNAL_EXPIRED", position.current_price)
            ELSE Handled(pm, <<>>, FALSE)
    ELSE Handled(pm, <<>>, FALSE)

\* The loop of _handle_divergence_warning from the k-th position on.  It
\* runs over the map itself: after a close the next step of the iteration
\* raises, so the loop ends with the first position it closes.
RECURSIVE DivergenceLoop(_, _, _, _, _)
DivergenceLoop(pm, k, symbol, direction, warning) ==
    IF k > Len(pm.positions) THEN Handled(pm, <<>>, FALSE)
    ELSE
    LET position == pm.positions[k] IN
    IF position.symbol = symbol /\ position.direction = direction
    THEN LET warned == [pm EXCEPT !.positions[k].warnings_received = Append(@, warning)]
         IN IF Len(position.warnings_received) + 1 >= 2
            THEN LET c == ClosePosition(warned, position.id, "MULTIPLE_WARNINGS",
                                        position.current_price)
                 IN Handled(c.pm, c.events, TRUE)
            ELSE DivergenceLoop(warned, k + 1, symbol, direction, warning)
    ELSE DivergenceLoop(pm, k + 1, symbol, direction, warning)

\* The body of _handle_divergence_warning for a divergence seen on the symbol.
DivergenceWarningResult(pm, symbol, divergence) ==
    DivergenceLoop(pm, 1, symbol, IF divergence = "BULLISH" THEN "VENDA" ELSE "COMPRA",
                   "DIVERGENCE_" \o divergence)

\* _tighten_stop that assigns the new stop whatever the stop is.
TightenStopUnguarded(position) ==
    IF position.direction = "COMPRA"
    THEN [position EXCEPT !.stop_loss = position.entry_price
                                           - (position.entry_price - position.stop_loss) \div 2]
    ELSE [position EXCEPT !.stop_loss = position.entry_price
                                           + (position.stop_loss - position.entry_price) \div 2]

\* _tighten_stop(position, factor=0.5)
TightenStop(position) ==
    IF position.direction = "COMPRA"
    THEN LET new_stop == position.entry_price
                            - (position.entry_price - position.stop_loss) \div 2
         IN [position EXCEPT !.stop_loss = IF @ > new_stop THEN @ ELSE new_stop]
    ELSE LET new_stop == position.entry_price
                            + (position.stop_loss - position.entry_price) \div 2
         IN [position EXCEPT !.stop_loss = IF @ < new_stop THEN @ ELSE new_stop]

\* The body of _handle_manipulation_warning (auto_manage is on).
ManipulationWarningResult(pm, symbol) ==
    Handled([pm EXCEPT !.positions =
                [k \in 1..Len(pm.positions) |->
                    IF pm.positions[k].symbol = symbol
                    THEN TightenStop([pm.positions[k] EXCEPT
                                         !.warnings_received = Append(@, "MANIPULATION_RISK")])
                    ELSE pm.positions[k]]],
            <<>>, FALSE)

\* The loop of _handle_market_update over the positions of the symbol (a
\* list made before the loop), for the last trade price.
RECURSIVE MarketUpdateLoop(_, _, _, _)
MarketUpdateLoop(pm, ids, price, events) ==
    IF ids = <<>> THEN Handled(pm, events, FALSE)
    ELSE
    LET position == UpdatePrice(Get(pm.positions, Head(ids)), price)
        updated == [pm EXCEPT !.positions = Put(@, position)]
    IN IF ShouldStop(position)
       THEN LET c == ClosePosition(updated, position.id, "STOP_LOSS", Some(price))
            IN MarketUpdateLoop(c.pm, Tail(ids), price, events \o c.events)
       ELSE IF TargetsHit(position) # {}
       THEN LET c == ClosePosition(updated, position.id,
                                   "TARGET_" \o ToString(CheckTargets(position)),
                                   Some(price))
            IN MarketUpdateLoop(c.pm, Tail(ids), price, events \o c.events)
       ELSE MarketUpdateLoop(updated, Tail(ids), price, events)

\* The body of _handle_market_update for the trades of one symbol.
MarketUpdateResult(pm, symbol, price) ==
    MarketUpdateLoop(pm, Keys(SelectSeq(pm.positions, LAMBDA p : p.symbol = symbol)),
                     price, <<>>)

\* The loop of close_all_positions over a list of the positions; a
\* position without a current price makes _close_position raise.
RECURSIVE CloseAllLoop(_, _, _, _)
CloseAllLoop(pm, ids, reason, events) ==
    IF ids = <<>> THEN Handled(pm, events, FALSE)
    ELSE
    LET c == ClosePosition(pm, Head(ids), reason, Get(pm.positions, Head(ids)).current_price)
    IN IF c.raised THEN Handled(c.pm, events, TRUE)
       ELSE CloseAllLoop(c.pm, Tail(ids), reason, events \o c.events)

\* close_all_positions(reason)
CloseAllPositionsResult(pm, reason) ==
    CloseAllLoop(pm, Keys(pm.positions), reason, <<>>)

\* Fewer than MaxOpened positions were opened, or the map is full.
OpeningBelowBound ==
    position_stats["total_opened"] < MaxOpened \/ Len(positions) >= MaxPositions

\* No position has received MaxWarnings warnings yet.
WarningsBelowBound ==
    \A k \in 1..Len(positions) : Len(positions[k].warnings_received) < MaxWarnings

\* A handler runs from `with self.lock` to the end of its body (the lock is
\* reentrant and every handler takes it), so the handlers of the threads run
\* one after the other: a handler is one step.
PositionStep(h, op, id, new_state) ==
    /\ SetPositions(h.pm)
    /\ published' = h.events
    /\ fired' = <<>>
    /\ ret' = [Ret(op, id, ~h.raised, Len(h.pm.positions)) EXCEPT !.new_state = new_state]
    /\ UNCHANGED <<now, active_signals, signal_history, stats, state_callbacks, running,
                   lock, timers, api_pc, api_call, mon_pc, mon_ids>>
    /\ UNCHANGED <<risk_vars, factory_vars, bus_vars, worker_vars, thread_vars, lock_vars>>

\* SIGNAL_STATE_CHANGED
HandleSignalStateChanged(signal, new_state) ==
    /\ new_state = "EXECUTED" => OpeningBelowBound
    /\ PositionStep(SignalStateChangedResult(Positions, signal, new_state, now),
                    "_handle_signal_state_changed", signal.id, new_state)

\* SIGNAL_EXPIRED
HandleSignalExpired(signal) ==
    PositionStep(SignalExpiredResult(Positions, signal), "_handle_signal_expired",
                 signal.id, "EXPIRED")

\* DIVERGENCE_WARNING
HandleDivergenceWarning(symbol, divergence) ==
    /\ WarningsBelowBound
    /\ PositionStep(DivergenceWarningResult(Positions, symbol, divergence),
                    "_handle_divergence_warning", "-", "-")

\* MANIPULATION_DETECTED
HandleManipulationWarning(symbol) ==
    /\ WarningsBelowBound
    /\ PositionStep(ManipulationWarningResult(Positions, symbol),
                    "_handle_manipulation_warning", "-", "-")

\* MARKET_DATA_UPDATED with trades of one symbol.
HandlePositionMarketUpdate(symbol, price) ==
    PositionStep(MarketUpdateResult(Positions, symbol, price),
                 "PositionManager._handle_market_update", "-", "-")

\* RISK_OVERRIDE: only the emergency breaker set to true closes the positions.
HandleRiskOverride(breaker, new_state) ==
    PositionStep(IF breaker = "emergency" /\ new_state
                 THEN CloseAllPositionsResult(Positions, "EMERGENCY_STOP")
                 ELSE Handled(Positions, <<>>, FALSE),
                 "_handle_risk_override", "-", "-")

\* The shutdown closes every position.
CloseAllPositions ==
    PositionStep(CloseAllPositionsResult(Positions, "SYSTEM_SHUTDOWN"),
                 "close_all_positions", "-", "-")

-----------------------------------------------------------------------------
(* The position manager with trailing_stop_enabled set.                    *)

TrailingStopDistance == 10

\* _update_trailing_stop
UpdateTrailingStop(position) ==
    IF position.direction = "COMPRA"
    THEN LET new_stop == position.current_price[1] - TrailingStopDistance
         IN IF new_stop > position.stop_loss THEN [position EXCEPT !.stop_loss = new_stop]
            ELSE position
    ELSE LET new_stop == position.current_price[1] + TrailingStopDistance
         IN IF new_stop < position.stop_loss THEN [position EXCEPT !.stop_loss = new_stop]
            ELSE position

\* A loop that looks at the targets before the stop.
RECURSIVE TrailingLoopTargetsFirst(_, _, _, _)
TrailingLoopTargetsFirst(pm, ids, price, events) ==
    IF ids = <<>> THEN Handled(pm, events, FALSE)
    ELSE
    LET position == UpdatePrice(Get(pm.positions, Head(ids)), price)
        updated == [pm EXCEPT !.positions = Put(@, position)]
    IN IF TargetsHit(position) # {}
       THEN LET c == ClosePosition(updated, position.id,
                                   "TARGET_" \o ToString(CheckTargets(position)),
                                   Some(price))
            IN TrailingLoopTargetsFirst(c.pm, Tail(ids), price, events \o c.events)
       ELSE IF ShouldStop(position)
       THEN LET c == ClosePosition(updated, position.id, "STOP_LOSS", Some(price))
            IN TrailingLoopTargetsFirst(c.pm, Tail(ids), price, events \o c.events)
       ELSE TrailingLoopTargetsFirst(updated, Tail(ids), price, events)

\* The loop of _handle_market_update with trailing_stop_enabled: a position
\* that stays open and is more than the trailing distance in profit has
\* its stop trailed.
RECURSIVE TrailingMarketUpdateLoop(_, _, _, _)
TrailingMarketUpdateLoop(pm, ids, price, events) ==
    IF ids = <<>> THEN Handled(pm, events, FALSE)
    ELSE
    LET position == UpdatePrice(Get(pm.positions, Head(ids)), price)
        updated == [pm EXCEPT !.positions = Put(@, position)]
    IN IF ShouldStop(position)
       THEN LET c == ClosePosition(updated, position.id, "STOP_LOSS", Some(price))
            IN TrailingMarketUpdateLoop(c.pm, Tail(ids), price, events \o c.events)
       ELSE IF TargetsHit(position) # {}
       THEN LET c == ClosePosition(updated, position.id,
                                   "TARGET_" \o ToString(CheckTargets(position)),
                                   Some(price))
            IN TrailingMarketUpdateLoop(c.pm, Tail(ids), price, events \o c.events)
       ELSE IF position.pnl_points > TrailingStopDistance
       THEN TrailingMarketUpdateLoop(
               [pm EXCEPT !.positions = Put(@, UpdateTrailingStop(position))],
               Tail(ids), price, events)
       ELSE TrailingMarketUpdateLoop(updated, Tail(ids), price, events)

\* _handle_market_update that looks at the targets first.
MarketTickResultTargetsFirst(pm, symbol, price) ==
    TrailingLoopTargetsFirst(pm, Keys(SelectSeq(pm.positions, LAMBDA p : p.symbol = symbol)),
                             price, <<>>)

\* The body of _handle_market_update for the trades of one symbol, with
\* trailing_stop_enabled.
MarketTickResult(pm, symbol, price) ==
    TrailingMarketUpdateLoop(pm, Keys(SelectSeq(pm.positions, LAMBDA p : p.symbol = symbol)),
                             price, <<>>)

\* MARKET_DATA_UPDATED with trades of one symbol, the last at price; the
\* step records the symbol and the price.
HandleMarketTick(symbol, price) ==
    PositionStep(MarketTickResult(Positions, symbol, price),
                 "PositionManager._handle_market_update", symbol, ToString(price))

-----------------------------------------------------------------------------
(* The lifecycle manager with the position manager subscribed to its       *)
(* events: LocalEventBus.publish calls the handler before it returns, and  *)
(* logs an exception of the handler instead of passing it on.              *)

MaxTracked == 2       \* create_signal calls per behaviour with positions tracked

\* **kwargs of the transition_state calls: none, or both prices.
TrackedExecutionPrice == 5000
TrackedExitPrice == 5016
TrackedKwargs == {NoKwargs, [execution_price |-> Some(TrackedExecutionPrice),
                             exit_price |-> Some(TrackedExitPrice)]}

\* transition_state(signal_id, new_state, **kwargs) as one call, with the
\* position manager's handler run by the publish of the state-change event.
TransitionStateTracked(id, new_state, kwargs) ==
    /\ api_pc = "idle"
    /\ CanAcquire("api")
    /\ new_state = "EXECUTED" => OpeningBelowBound
    /\ LET r == TransitionCore(Manager, state_callbacks, id, new_state, kwargs) IN
        IF r.ok
        THEN LET h == SignalStateChangedResult(Positions, Get(r.m.active, id), new_state, now)
             IN /\ SetManager(TransitionArchive(r.m, id, new_state))
                /\ SetPositions(h.pm)
                /\ published' = r.events \o h.events
                /\ fired' = r.fired
                /\ ret' = RetTransition("transition_state", id, new_state, TRUE)
        ELSE /\ published' = <<>>
             /\ fired' = <<>>
             /\ ret' = RetTransition("transition_state", id, new_state, FALSE)
             /\ UNCHANGED <<active_signals, signal_history, stats, position_vars, bus_vars, worker_vars, thread_vars, lock_vars>>
    /\ UNCHANGED <<now, state_callbacks, running, lock, timers, api_pc, api_call, mon_pc,
                   mon_ids>>
    /\ UNCHANGED <<risk_vars, factory_vars, bus_vars, worker_vars, thread_vars, lock_vars>>

\* manual_override(breaker, active), with the position manager's handler run
\* by the publish of RISK_OVERRIDE.
ManualOverrideTracked(breaker, active) ==
    LET o == ManualOverrideResult(Risk, breaker, active)
        h == IF o.events # <<>> /\ breaker = "emergency" /\ active
             THEN CloseAllPositionsResult(Positions, "EMERGENCY_STOP")
             ELSE Handled(Positions, <<>>, FALSE)
    IN /\ SetRisk(o.r)
       /\ emergency_window' = IF breaker = "emergency" THEN o.r.breakers["emergency"]
                              ELSE emergency_window
       /\ SetPositions(h.pm)
       /\ published' = o.events \o h.events
       /\ fired' = <<>>
       /\ ret' = Ret("manual_override:" \o breaker, "-", breaker \in Breakers,
                     Len(h.pm.positions))
       /\ evaluation' = None
       /\ UNCHANGED trade_count
       /\ UNCHANGED <<now, active_signals, signal_history, stats, state_callbacks, running,
                      lock, timers, api_pc, api_call, mon_pc, mon_ids>>
       /\ UNCHANGED <<factory_vars, bus_vars, worker_vars, thread_vars, lock_vars>>

-----------------------------------------------------------------------------
(* LocalEventBus: infrastructure/event_bus/local_event_bus.py.             *)

\* The event types and the handlers of the services that subscribe to them.
EventTypes == {"STRATEGIC_SIGNAL_STATE_CHANGED", "MARKET_DATA_UPDATED"}

Subscribers == {"strategic_signal_service", "position_manager", "risk_management_service"}

\* __init__: handlers = defaultdict(list)
BusInit ==
    /\ handlers = [event_type \in EventTypes |-> <<>>]
    /\ delivery = None

\* A loop over the handlers that ends with the first handler that raises.
RECURSIVE PublishLoopStopsAtRaise(_, _, _)
PublishLoopStopsAtRaise(todo, raising, invoked) ==
    IF todo = <<>> THEN [invoked |-> invoked, propagated |-> FALSE]
    ELSE IF Head(todo) \in raising
    THEN [invoked |-> Append(invoked, Head(todo)), propagated |-> TRUE]
    ELSE PublishLoopStopsAtRaise(Tail(todo), raising, Append(invoked, Head(todo)))

\* The loop of publish over the handlers left to call: `raising` are the
\* handlers that raise an Exception when called.  Each handler(data) is
\* inside try/except Exception, which logs and lets the loop go on.
RECURSIVE PublishLoop(_, _, _)
PublishLoop(todo, raising, invoked) ==
    IF todo = <<>> THEN [invoked |-> invoked, propagated |-> FALSE]
    ELSE PublishLoop(Tail(todo), raising, Append(invoked, Head(todo)))

\* publish that lets the first exception of a handler pass.
PublishStopsAtRaise(subscribed, raising) == PublishLoopStopsAtRaise(subscribed, raising, <<>>)

\* publish over the handlers subscribed to the event type.
PublishResult(subscribed, raising) == PublishLoop(subscribed, raising, <<>>)

\* subscribe(event_type, handler): the handler is appended to the list of
\* the event type.  The services subscribe in their constructors, each
\* handler once to an event type.
Subscribe(event_type, handler) ==
    /\ \A i \in 1..Len(handlers[event_type]) : handlers[event_type][i] # handler
    /\ handlers' = [handlers EXCEPT ![event_type] = Append(@, handler)]
    /\ published' = <<>>
    /\ fired' = <<>>
    /\ ret' = Ret("subscribe", "-", TRUE, Len(handlers'[event_type]))
    /\ UNCHANGED <<now, active_signals, signal_history, stats, state_callbacks, running,
                   lock, timers, api_pc, api_call, mon_pc, mon_ids>>
    /\ UNCHANGED <<delivery, risk_vars, factory_vars, position_vars, worker_vars, thread_vars, lock_vars>>

\* publish(event_type, data): the handlers are called before publish
\* returns; the step records which were called, in order.
Publish(event_type, raising) ==
    LET p == PublishResult(handlers[event_type], raising) IN
    /\ delivery' = Some([event_type |-> event_type, raising |-> raising,
                         invoked |-> p.invoked, propagated |-> p.propagated])
    /\ published' = <<>>
    /\ fired' = <<>>
    /\ ret' = Ret("publish", "-", ~p.propagated, Len(p.invoked))
    /\ UNCHANGED <<now, active_signals, signal_history, stats, state_callbacks, running,
                   lock, timers, api_pc, api_call, mon_pc, mon_ids>>
    /\ UNCHANGED <<handlers, risk_vars, factory_vars, position_vars, worker_vars, thread_vars, lock_vars>>

-----------------------------------------------------------------------------
(* RiskManagementService._handle_trade_closed called by several threads.   *)
(* The service has no lock: performance_metrics['daily_pnl'] += pnl reads  *)
(* the entry, adds, and stores the sum, and another thread can run between *)
(* the read and the store.                                                 *)

Workers == {"w1", "w2"}

MaxDelivered == 3     \* TRADE_CLOSED events the threads deliver per behaviour

WorkerInit ==
    /\ workers = [w \in Workers |-> [pc |-> "idle", pnl |-> 0, daily_pnl |-> 0]]
    /\ delivered_pnl = 0

\* Thread w enters _handle_trade_closed with pnl and reads
\* performance_metrics['daily_pnl'].
TradeClosedLoad(w, pnl) ==
    /\ workers[w].pc = "idle"
    /\ trade_count < MaxDelivered
    /\ trade_count' = trade_count + 1
    /\ workers' = [workers EXCEPT ![w] = [pc |-> "loaded", pnl |-> pnl,
                                          daily_pnl |-> performance_metrics.daily_pnl]]
    /\ delivered_pnl' = delivered_pnl + pnl
    /\ published' = <<>>
    /\ fired' = <<>>
    /\ ret' = Ret("_handle_trade_closed:load", w, TRUE, 0)
    /\ UNCHANGED <<now, active_signals, signal_history, stats, state_callbacks, running,
                   lock, timers, api_pc, api_call, mon_pc, mon_ids>>
    /\ UNCHANGED <<circuit_breakers, performance_metrics, signal_timestamps,
                   risk_signal_history, evaluation, emergency_window>>
    /\ UNCHANGED <<factory_vars, position_vars, bus_vars, thread_vars, lock_vars>>

\* Thread w stores the sum of what it read and its pnl, and runs the rest
\* of the handler: peak, drawdown, loss streak, breakers.
TradeClosedStore(w) ==
    /\ workers[w].pc = "loaded"
    /\ workers' = [workers EXCEPT ![w].pc = "idle"]
    /\ SetRisk(HandleTradeClosedResult(
                  [Risk EXCEPT !.metrics.daily_pnl = workers[w].daily_pnl], workers[w].pnl))
    /\ emergency_window' = emergency_window
    /\ published' = <<>>
    /\ fired' = <<>>
    /\ ret' = Ret("_handle_trade_closed", w, TRUE, 0)
    /\ UNCHANGED <<now, active_signals, signal_history, stats, state_callbacks, running,
                   lock, timers, api_pc, api_call, mon_pc, mon_ids>>
    /\ UNCHANGED <<evaluation, trade_count, delivered_pnl>>
    /\ UNCHANGED <<factory_vars, position_vars, bus_vars, thread_vars, lock_vars>>

-----------------------------------------------------------------------------
(* start(), stop() and the monitor threads, as many as start() creates.    *)
(* start() looks at `running` only, not at the thread of an earlier start: *)
(* after a stop() it creates a thread whether or not the earlier one has   *)
(* left its loop.  stop() clears `running` under the lock and then, the    *)
(* lock released, joins self.monitor_thread (the thread of the last        *)
(* start) for at most two seconds.                                         *)

MaxThreads == 2       \* threads that start() creates per behaviour

ThreadIds == 1..MaxThreads

ThreadInit ==
    /\ monitor_threads = <<>>
    /\ join_pc = "idle"

\* The name under which monitor thread i owns the lock.
MonitorName(i) == IF i = 1 THEN "monitor" ELSE "monitor" \o ToString(i)

Alive(i) == i \in 1..Len(monitor_threads) /\ monitor_threads[i].pc # "off"

AliveThreads == {i \in ThreadIds : Alive(i)}

\* start(): under the lock, if not running, set running and create and
\* start a thread; if running, nothing.
StartThread ==
    /\ api_pc = "idle"
    /\ join_pc = "idle"
    /\ CanAcquire("api")
    /\ IF ~running
       THEN /\ Len(monitor_threads) < MaxThreads
            /\ running' = TRUE
            /\ monitor_threads' = Append(monitor_threads, [pc |-> "head", ids |-> <<>>])
            /\ ret' = Ret("start", "-", TRUE, Len(monitor_threads) + 1)
       ELSE /\ ret' = Ret("start", "-", FALSE, Len(monitor_threads))
            /\ UNCHANGED <<running, monitor_threads>>
    /\ published' = <<>>
    /\ fired' = <<>>
    /\ UNCHANGED <<now, active_signals, signal_history, stats, state_callbacks, lock,
                   timers, api_pc, api_call, mon_pc, mon_ids, join_pc>>
    /\ UNCHANGED <<risk_vars, factory_vars, position_vars, bus_vars, worker_vars, lock_vars>>

\* stop(), first half: running = False under the lock; the lock is released
\* and, if self.monitor_thread is alive, the caller waits in join(timeout=2).
StopThread ==
    /\ api_pc = "idle"
    /\ join_pc = "idle"
    /\ CanAcquire("api")
    /\ running' = FALSE
    /\ join_pc' = IF Alive(Len(monitor_threads)) THEN "join" ELSE "idle"
    /\ published' = <<>>
    /\ fired' = <<>>
    /\ ret' = Ret("stop:flag", "-", TRUE, Cardinality(AliveThreads))
    /\ UNCHANGED <<now, active_signals, signal_history, stats, state_callbacks, lock,
                   timers, api_pc, api_call, mon_pc, mon_ids, monitor_threads>>
    /\ UNCHANGED <<risk_vars, factory_vars, position_vars, bus_vars, worker_vars, lock_vars>>

\* stop(), second half: join returns, because the thread has ended (ok) or
\* because the two seconds are over (not ok), and stop() returns.
JoinReturn ==
    /\ join_pc = "join"
    /\ join_pc' = "idle"
    /\ published' = <<>>
    /\ fired' = <<>>
    /\ ret' = Ret("stop", "-", ~Alive(Len(monitor_threads)), Cardinality(AliveThreads))
    /\ UNCHANGED <<now, active_signals, signal_history, stats, state_callbacks, running,
                   lock, timers, api_pc, api_call, mon_pc, mon_ids, monitor_threads>>
    /\ UNCHANGED <<risk_vars, factory_vars, position_vars, bus_vars, worker_vars, lock_vars>>

\* Thread i at `while self.running`: false, the thread ends.
ThreadExit(i) ==
    /\ Alive(i)
    /\ monitor_threads[i].pc = "head"
    /\ ~running
    /\ monitor_threads' = [monitor_threads EXCEPT ![i].pc = "off"]
    /\ published' = <<>>
    /\ fired' = <<>>
    /\ ret' = Ret("_monitor_loop:exit", "-", TRUE, i)
    /\ UNCHANGED <<now, active_signals, signal_history, stats, state_callbacks, running,
                   lock, timers, api_pc, api_call, mon_pc, mon_ids, join_pc>>
    /\ UNCHANGED <<risk_vars, factory_vars, position_vars, bus_vars, worker_vars, lock_vars>>

\* Thread i at `while self.running`: true, it copies the ids under the lock.
ThreadSnapshot(i) ==
    /\ Alive(i)
    /\ monitor_threads[i].pc = "head"
    /\ running
    /\ CanAcquire(MonitorName(i))
    /\ monitor_threads' = [monitor_threads EXCEPT ![i] =
                              [pc |-> "scan", ids |-> Keys(active_signals)]]
    /\ published' = <<>>
    /\ fired' = <<>>
    /\ ret' = Ret("_monitor_loop:snapshot", "-", TRUE, i)
    /\ UNCHANGED <<now, active_signals, signal_history, stats, state_callbacks, running,
                   lock, timers, api_pc, api_call, mon_pc, mon_ids, join_pc>>
    /\ UNCHANGED <<risk_vars, factory_vars, position_vars, bus_vars, worker_vars, lock_vars>>

\* Thread i, one iteration of the for loop, first half: take the lock, look
\* the signal up and test it; the lock is kept when the signal is to expire.
ThreadCheck(i) ==
    /\ Alive(i)
    /\ monitor_threads[i].pc = "scan"
    /\ monitor_threads[i].ids # <<>>
    /\ CanAcquire(MonitorName(i))
    /\ LET id == Head(monitor_threads[i].ids) IN
        IF Has(active_signals, id) /\ Expirable(Get(active_signals, id), now)
        THEN /\ lock' = MonitorName(i)
             /\ monitor_threads' = [monitor_threads EXCEPT ![i].pc = "expire"]
             /\ ret' = Ret("_monitor_loop:check", id, TRUE, i)
        ELSE /\ monitor_threads' = [monitor_threads EXCEPT ![i].ids = Tail(@)]
             /\ ret' = Ret("_monitor_loop:check", id, FALSE, i)
             /\ UNCHANGED lock
    /\ published' = <<>>
    /\ fired' = <<>>
    /\ UNCHANGED <<now, active_signals, signal_history, stats, state_callbacks, running,
                   timers, api_pc, api_call, mon_pc, mon_ids, join_pc>>
    /\ UNCHANGED <<risk_vars, factory_vars, position_vars, bus_vars, worker_vars, lock_vars>>

\* Thread i, second half, still under the lock: transition_state(id,
\* EXPIRED) and the expiry event; the lock is released.
ThreadExpire(i) ==
    /\ Alive(i)
    /\ monitor_threads[i].pc = "expire"
    /\ CanAcquire(MonitorName(i))
    /\ LET id == Head(monitor_threads[i].ids)
           r == MonitorExpireResult(Manager, state_callbacks, id)
       IN /\ SetManager(r.m)
          /\ published' = r.events
          /\ fired' = r.fired
          /\ ret' = Ret("_monitor_loop:expire", id, r.ok, i)
    /\ lock' = "free"
    /\ monitor_threads' = [monitor_threads EXCEPT ![i] =
                              [pc |-> "scan", ids |-> Tail(monitor_threads[i].ids)]]
    /\ UNCHANGED <<now, state_callbacks, running, timers, api_pc, api_call, mon_pc,
                   mon_ids, join_pc>>
    /\ UNCHANGED <<risk_vars, factory_vars, position_vars, bus_vars, worker_vars, lock_vars>>

\* Thread i: time.sleep(1) after the for loop, then back to the while test.
ThreadSleep(i) ==
    /\ Alive(i)
    /\ monitor_threads[i].pc = "scan"
    /\ monitor_threads[i].ids = <<>>
    /\ monitor_threads' = [monitor_threads EXCEPT ![i].pc = "head"]
    /\ published' = <<>>
    /\ fired' = <<>>
    /\ ret' = Ret("_monitor_loop:sleep", "-", TRUE, i)
    /\ UNCHANGED <<now, active_signals, signal_history, stats, state_callbacks, running,
                   lock, timers, api_pc, api_call, mon_pc, mon_ids, join_pc>>
    /\ UNCHANGED <<risk_vars, factory_vars, position_vars, bus_vars, worker_vars, lock_vars>>

ThreadStep(i) ==
    ThreadExit(i) \/ ThreadSnapshot(i) \/ ThreadCheck(i) \/ ThreadExpire(i) \/ ThreadSleep(i)

-----------------------------------------------------------------------------
(* The lifecycle manager's lock and the position manager's lock, as the   *)
(* threads take them.  Both are threading.RLock.  A call is the list of   *)
(* the `with self.lock` blocks it enters, outermost first, each inside    *)
(* the one before; it leaves them in the reverse order.  Handlers run     *)
(* synchronously inside publish, on the thread that publishes.            *)

LockThreads == {"api", "monitor", "timer"}

LockInit ==
    /\ position_lock = "free"
    /\ lock_threads = [t \in LockThreads |-> [plan |-> <<>>, held |-> 0, releasing |-> FALSE]]

\* transition_state called by the ingestion thread: its own block, inside
\* which the state-change event is published and the position manager's
\* _handle_signal_state_changed enters its block.
TransitionLocks == <<"lifecycle", "position">>

\* The monitor loop and _auto_activate_signal call transition_state inside
\* their own block of the lifecycle lock; the monitor also publishes the
\* expiry event there, which _handle_signal_expired handles.
NestedTransitionLocks == <<"lifecycle", "lifecycle", "position">>

\* get_active_signals, get_signal_by_id, get_statistics, the monitor's
\* copy of the ids: the lifecycle lock alone (_build_analysis_data calls
\* get_active_signals and, after it has returned, the position manager).
LifecycleQueryLocks == <<"lifecycle">>

\* A handler of the position manager that calls back into the lifecycle
\* manager while it is in its block.
PositionHandlerLocksCallingBack == <<"position", "lifecycle">>

\* _handle_market_update, _handle_divergence_warning,
\* _handle_manipulation_warning, _handle_risk_override and the queries of
\* the position manager: the position lock alone.  What they publish inside
\* it, POSITION_OPENED and POSITION_CLOSED, goes to the display.
PositionHandlerLocks == <<"position">>

\* The calls that a thread makes.
LockPlans(thread) ==
    CASE thread = "monitor" -> {LifecycleQueryLocks, NestedTransitionLocks}
      [] thread = "timer" -> {NestedTransitionLocks}
      [] OTHER -> {TransitionLocks, LifecycleQueryLocks, PositionHandlerLocks}

OwnerOf(l) == IF l = "lifecycle" THEN lock ELSE position_lock

\* The thread is at the `with` of the lock l, and another thread owns l.
WaitsFor(thread, l) ==
    LET s == lock_threads[thread] IN
    /\ s.plan # <<>>
    /\ ~s.releasing
    /\ s.held < Len(s.plan)
    /\ s.plan[s.held + 1] = l
    /\ OwnerOf(l) \notin {"free", thread}

\* A thread starts a call.
BeginCall(thread, plan) ==
    /\ lock_threads[thread].plan = <<>>
    /\ lock_threads' = [lock_threads EXCEPT ![thread] =
                           [plan |-> plan, held |-> 0, releasing |-> FALSE]]
    /\ published' = <<>>
    /\ fired' = <<>>
    /\ ret' = Ret("call", thread, TRUE, Len(plan))
    /\ UNCHANGED <<now, active_signals, signal_history, stats, state_callbacks, running,
                   lock, timers, api_pc, api_call, mon_pc, mon_ids, position_lock>>
    /\ UNCHANGED <<risk_vars, factory_vars, position_vars, bus_vars, worker_vars, thread_vars>>

\* The thread enters its next `with self.lock`: the lock is free or its own.
AcquireLock(thread) ==
    LET s == lock_threads[thread] IN
    /\ s.plan # <<>>
    /\ ~s.releasing
    /\ s.held < Len(s.plan)
    /\ OwnerOf(s.plan[s.held + 1]) \in {"free", thread}
    /\ IF s.plan[s.held + 1] = "lifecycle"
       THEN lock' = thread /\ UNCHANGED position_lock
       ELSE position_lock' = thread /\ UNCHANGED lock
    /\ lock_threads' = [lock_threads EXCEPT ![thread] =
                           [s EXCEPT !.held = s.held + 1,
                                     !.releasing = (s.held + 1 = Len(s.plan))]]
    /\ published' = <<>>
    /\ fired' = <<>>
    /\ ret' = Ret("acquire:" \o s.plan[s.held + 1], thread, TRUE, s.held + 1)
    /\ UNCHANGED <<now, active_signals, signal_history, stats, state_callbacks, running,
                   timers, api_pc, api_call, mon_pc, mon_ids>>
    /\ UNCHANGED <<risk_vars, factory_vars, position_vars, bus_vars, worker_vars, thread_vars>>

\* The thread leaves its innermost block; the lock is free again when the
\* thread is in no other block of it.
ReleaseLock(thread) ==
    LET s == lock_threads[thread]
        l == s.plan[s.held]
        outer == \E k \in 1..(s.held - 1) : s.plan[k] = l
    IN /\ s.releasing
       /\ s.held > 0
       /\ IF l = "lifecycle"
          THEN lock' = (IF outer THEN thread ELSE "free") /\ UNCHANGED position_lock
          ELSE position_lock' = (IF outer THEN thread ELSE "free") /\ UNCHANGED lock
       /\ lock_threads' = [lock_threads EXCEPT ![thread] =
                              IF s.held = 1
                              THEN [plan |-> <<>>, held |-> 0, releasing |-> FALSE]
                              ELSE [s EXCEPT !.held = s.held - 1]]
       /\ published' = <<>>
       /\ fired' = <<>>
       /\ ret' = Ret("release:" \o l, thread, TRUE, s.held - 1)
       /\ UNCHANGED <<now, active_signals, signal_history, stats, state_callbacks, running,
                      timers, api_pc, api_call, mon_pc, mon_ids>>
       /\ UNCHANGED <<risk_vars, factory_vars, position_vars, bus_vars, worker_vars, thread_vars>>

-----------------------------------------------------------------------------
Init == LifecycleInit /\ RiskInit /\ FactoryInit /\ PositionInit /\ BusInit /\ WorkerInit
        /\ ThreadInit /\ LockInit

\* The breakers the operator overrides, and a name that is no breaker.
OverrideBreakers == {"emergency", "frequency", "volatility"}

\* The risk service on its own: evaluations, trade results, the daily
\* reset, the operator's overrides.
RiskNext ==
    \/ \E signal \in RiskSignals, hour \in Hours : EvaluateSignal(signal, hour)
    \/ \E signal \in RiskSignals, hour \in Hours : HandleSignalGenerated(signal, hour)
    \/ \E pnl \in TradePnls : HandleTradeClosed(pnl)
    \/ ResetDailyMetrics
    \/ \E breaker \in OverrideBreakers, active \in BOOLEAN : ManualOverride(breaker, active)

RiskSpec == Init /\ [][RiskNext]_vars

\* What the detectors hand to create_strategic_signal: a WDO reversal, its
\* DOL pair, a DOL reversal in the opposite direction, a DOL breakout at
\* another price.
DetectedSetups ==
    {[setup_type |-> "REVERSAL_VIOLENT", symbol |-> "WDO", direction |-> "COMPRA",
      entry_price |-> 5000, confidence |-> 70],
     [setup_type |-> "REVERSAL_VIOLENT", symbol |-> "DOL", direction |-> "COMPRA",
      entry_price |-> 5000, confidence |-> 70],
     [setup_type |-> "REVERSAL_VIOLENT", symbol |-> "DOL", direction |-> "VENDA",
      entry_price |-> 5000, confidence |-> 60],
     [setup_type |-> "BREAKOUT_IGNITION", symbol |-> "DOL", direction |-> "COMPRA",
      entry_price |-> 5010, confidence |-> 70]}

\* Signal admission: the detectors' signals reach create_strategic_signal
\* while trades close and the operator overrides breakers.
AdmissionNext ==
    \/ \E d \in DetectedSetups, filter_results \in FilterResults, hour \in Hours :
          CreateStrategicSignal(d.setup_type, d.symbol, d.direction, d.entry_price,
                                d.confidence, filter_results, hour)
    \/ \E pnl \in TradePnls : HandleTradeClosed(pnl)
    \/ ResetDailyMetrics
    \/ \E breaker \in OverrideBreakers, active \in BOOLEAN : ManualOverride(breaker, active)

AdmissionSpec == Init /\ [][AdmissionNext]_vars

\* The times at which the clock is read: around the ends of the minute, the
\* hour and the day that start at 0.
ClockValues == {0, 59, 60, 3600, 86460}

\* datetime.now().hour inside the trading session (no penalty for the hour).
SessionHours == {12}

\* Time passes until the clock reads t.
Elapse(t) ==
    /\ t > now
    /\ now' = t
    /\ published' = <<>>
    /\ fired' = <<>>
    /\ ret' = Ret("elapse", "-", TRUE, 0)
    /\ UNCHANGED <<active_signals, signal_history, stats, state_callbacks, running, lock,
                   timers, api_pc, api_call, mon_pc, mon_ids>>
    /\ UNCHANGED <<risk_vars, factory_vars, position_vars, bus_vars, worker_vars, thread_vars, lock_vars>>

\* The risk service over a day: signals are evaluated as time passes, and
\* the daily reset trims the rolling counters.
FrequencyNext ==
    \/ \E signal \in RiskSignals, hour \in SessionHours : EvaluateSignal(signal, hour)
    \/ \E t \in ClockValues : Elapse(t)
    \/ ResetDailyMetrics

FrequencySpec == Init /\ [][FrequencyNext]_vars

MaxCandidates == 3    \* create_strategic_signal calls per behaviour of ConfluenceSpec

\* The candidates of the pairing, each with what the context filters say of
\* it: a WDO reversal, its DOL pair, DOL reversals in the opposite direction
\* (one that the penalty takes below 0.5, one that it does not), a DOL
\* breakout at another price with a low risk/reward, a WDO reversal that
\* fails the filters, and one whose confidence is no probability.
Candidates ==
    {[setup_type |-> "REVERSAL_VIOLENT", symbol |-> "WDO", direction |-> "COMPRA",
      entry_price |-> 5000, confidence |-> 65,
      filter_results |-> [passed |-> TRUE, confidence_multiplier |-> 100]],
     [setup_type |-> "REVERSAL_VIOLENT", symbol |-> "DOL", direction |-> "COMPRA",
      entry_price |-> 5000, confidence |-> 95,
      filter_results |-> [passed |-> TRUE, confidence_multiplier |-> 100]],
     [setup_type |-> "REVERSAL_VIOLENT", symbol |-> "DOL", direction |-> "VENDA",
      entry_price |-> 5000, confidence |-> 60,
      filter_results |-> [passed |-> TRUE, confidence_multiplier |-> 100]],
     [setup_type |-> "REVERSAL_VIOLENT", symbol |-> "DOL", direction |-> "VENDA",
      entry_price |-> 5000, confidence |-> 95,
      filter_results |-> [passed |-> TRUE, confidence_multiplier |-> 100]],
     [setup_type |-> "BREAKOUT_IGNITION", symbol |-> "DOL", direction |-> "COMPRA",
      entry_price |-> 5010, confidence |-> 70,
      filter_results |-> [passed |-> TRUE, confidence_multiplier |-> 60]],
     [setup_type |-> "REVERSAL_VIOLENT", symbol |-> "WDO", direction |-> "COMPRA",
      entry_price |-> 5000, confidence |-> 65,
      filter_results |-> [passed |-> FALSE, confidence_multiplier |-> 50]],
     [setup_type |-> "REVERSAL_VIOLENT", symbol |-> "WDO", direction |-> "COMPRA",
      entry_price |-> 5000, confidence |-> 120,
      filter_results |-> [passed |-> TRUE, confidence_multiplier |-> 100]]}

\* The times at which the clock is read: at the pairing timeout, just after
\* it, and a day and five seconds after the start.
PairingClock == {0, 10, 11, 86405}

\* The pairing of the candidates of the two symbols as time passes and
\* market updates arrive.
ConfluenceNext ==
    \/ \E d \in Candidates, hour \in SessionHours :
          CreateStrategicSignalUpTo(d.setup_type, d.symbol, d.direction, d.entry_price,
                                    d.confidence, d.filter_results, hour, MaxCandidates)
    \/ HandleMarketUpdate
    \/ \E t \in PairingClock : Elapse(t)

ConfluenceSpec == Init /\ [][ConfluenceNext]_vars

\* The times at which the clock is read while positions are opened.
PositionClock == {1}

\* The events that the ingestion, monitor and timer threads deliver to the
\* position manager, in any order, as time passes.
PositionNext ==
    \/ \E c \in StateChanges : HandleSignalStateChanged(c.signal, c.new_state)
    \/ \E id \in PositionSignalIds : HandleSignalExpired(PositionSignal(id, None))
    \/ \E symbol \in Symbols, divergence \in {"BULLISH", "BEARISH"} :
          HandleDivergenceWarning(symbol, divergence)
    \/ \E symbol \in Symbols : HandleManipulationWarning(symbol)
    \/ \E symbol \in Symbols, price \in MarketPrices :
          HandlePositionMarketUpdate(symbol, price)
    \/ \E breaker \in {"emergency", "consecutive_losses"}, new_state \in BOOLEAN :
          HandleRiskOverride(breaker, new_state)
    \/ CloseAllPositions
    \/ \E t \in PositionClock : Elapse(t)

PositionSpec == Init /\ [][PositionNext]_vars

\* The ids of the signals created and driven through their lifecycle.
TrackedIds == {"s1"}

\* The times at which the clock is read while signals are tracked.
TrackingClock == {2}

\* The breakers the operator overrides while positions are tracked.
TrackedBreakers == {"emergency", "frequency"}

\* Signals are created, activated by their timers or by the caller, executed
\* and closed, while market updates arrive and the operator overrides
\* breakers; the monitor is not started.
TrackingNext ==
    \/ \E id \in TrackedIds : CreateSignalUpTo(id, MaxTracked)
    \/ \E timer \in BagToSet(timers) : AutoActivateSignal(timer)
    \/ \E id \in TrackedIds, new_state \in SignalState \ {"PENDING"}, kwargs \in TrackedKwargs :
          TransitionStateTracked(id, new_state, kwargs)
    \/ \E id \in TrackedIds, price \in MarketPrices :
          HandlePositionMarketUpdate(NewSignal(id).symbol, price)
    \/ \E breaker \in TrackedBreakers, active \in BOOLEAN :
          ManualOverrideTracked(breaker, active)
    \/ \E t \in TrackingClock : Elapse(t)

TrackingSpec == Init /\ [][TrackingNext]_vars

-----------------------------------------------------------------------------
\* The steps of the lifecycle manager's threads: the calling thread, the
\* timer threads, the monitor thread; and the clock.
LifecycleNext ==
    \/ \E id \in SignalIds : CreateSignal(id)
    \/ \E timer \in BagToSet(timers) : AutoActivateSignal(timer)
    \/ \E id \in SignalIds, new_state \in SignalState, kwargs \in Kwargs :
          TransitionStateCall(id, new_state, kwargs)
    \/ TransitionStateReturn
    \/ Start
    \/ Stop
    \/ MonitorStep
    \/ CleanupExpired
    \/ Tick

Spec == Init /\ [][LifecycleNext]_vars

\* The monitor is a thread of its own: the scheduler runs it again and again.
\* A caller inside transition_state runs on to its return.
FairSpec ==
    /\ Spec
    /\ WF_vars(MonitorStep)
    /\ WF_vars(TransitionStateReturn)

\* The calling thread and the timers, with callbacks being registered.
CallbackNext ==
    \/ \E id \in SignalIds : CreateSignal(id)
    \/ \E timer \in BagToSet(timers) : AutoActivateSignal(timer)
    \/ \E id \in SignalIds, new_state \in SignalState, kwargs \in Kwargs :
          TransitionStateCall(id, new_state, kwargs)
    \/ TransitionStateReturn
    \/ CleanupExpired
    \/ \E state \in SignalState, callback \in Callbacks : RegisterStateCallback(state, callback)
    \/ Tick

CallbackSpec == Init /\ [][CallbackNext]_vars

\* A long run: with the clock at 0, the monitor off and nothing executed,
\* signals are created and expired by request, one after the other.
LongRun ==
    /\ now = 0
    /\ mon_pc = "off"
    /\ stats["total_executed"] = 0
    /\ \/ \E id \in SignalIds : CreateSignalUpTo(id, MaxArchived)
       \/ \E id \in SignalIds : TransitionStateCall(id, "EXPIRED", NoKwargs)
       \/ TransitionStateReturn

\* The lifecycle of Spec for the first MaxCreated signals, and long runs.
HistoryNext ==
    \/ stats["total_created"] <= MaxCreated /\ LifecycleNext
    \/ LongRun

HistorySpec == Init /\ [][HistoryNext]_vars

-----------------------------------------------------------------------------
(* Properties *)

\* The transition table as the specification states it.
LegalTransitions ==
    {<<"PENDING", "ACTIVE">>, <<"PENDING", "EXPIRED">>,
     <<"ACTIVE", "EXECUTED">>, <<"ACTIVE", "EXPIRED">>,
     <<"EXECUTED", "STOPPED">>, <<"EXECUTED", "TARGET_HIT">>}

Legal(id, new_state) ==
    /\ Has(active_signals, id)
    /\ <<Get(active_signals, id).state, new_state>> \in LegalTransitions

\* C1: transition legality.  In every reachable state, whoever calls
\* transition_state (a caller, the timer, the monitor, cleanup_expired), the
\* call succeeds iff the signal is in the active map and the pair (current
\* state, requested state) is one of the six legal pairs; and each
\* transition_state call a thread makes returns true iff the pair is legal,
\* leaving the signal in the requested state.  A signal in EXPIRED, STOPPED
\* or TARGET_HIT therefore accepts no transition, in the map or archived.
C1_TransitionLegality ==
    /\ [](\A id \in SignalIds, new_state \in SignalState, kwargs \in Kwargs :
            TransitionState(Manager, state_callbacks, id, new_state, kwargs).ok
                <=> Legal(id, new_state))
    /\ [][(api_pc = "idle" /\ ret'.op \in {"transition_state", "transition_state:updated"}) =>
            /\ ret'.ok <=> Legal(ret'.signal_id, ret'.new_state)
            /\ ret'.ok => Get(active_signals', ret'.signal_id).state = ret'.new_state
            /\ ~ret'.ok => active_signals' = active_signals]_lifecycle_vars

\* A request on a known, EXECUTED signal has been refused.
C1_Witness ==
    /\ ret.op = "transition_state"
    /\ ~ret.ok
    /\ Has(active_signals, ret.signal_id)
    /\ Get(active_signals, ret.signal_id).state = "EXECUTED"

\* The step just taken was a transition_state call made by the calling thread.
IsTransitionCall ==
    api_pc = "idle" /\ ret'.op \in {"transition_state", "transition_state:updated"}

\* The signal id is in the active map, PENDING or ACTIVE, past its expiration.
Overdue(id) ==
    /\ Has(active_signals, id)
    /\ Get(active_signals, id).state \in {"PENDING", "ACTIVE"}
    /\ now >= Get(active_signals, id).expiration_time

\* C2: expiry and execution exclude each other.  Once the monitor has found
\* a signal PENDING or ACTIVE and expired, nothing changes the signal before
\* the monitor's transition to EXPIRED, which succeeds and archives it; the
\* monitor and cleanup_expired never expire a signal in another state (an
\* EXECUTED one in particular); and a request for EXECUTED succeeds iff the
\* signal is in the active map and ACTIVE, so that a request that comes
\* after the expiry is refused and changes nothing.
C2_ExpiryExcludesExecution ==
    /\ [](mon_pc = "expire" =>
            /\ lock = "monitor"
            /\ Overdue(Head(mon_ids)))
    /\ [][ret'.op = "_monitor_loop:expire" =>
            /\ ret'.ok
            /\ Get(active_signals, ret'.signal_id).state \in {"PENDING", "ACTIVE"}
            /\ ~Has(active_signals', ret'.signal_id)
            /\ stats'["total_expired"] = stats["total_expired"] + 1
            /\ stats'["total_executed"] = stats["total_executed"]]_lifecycle_vars
    /\ [][ret'.op = "cleanup_expired" =>
            \A i \in 1..Len(active_signals) :
                IF active_signals[i].state \in {"PENDING", "ACTIVE"}
                   /\ IsExpired(active_signals[i], now)
                THEN ~Has(active_signals', active_signals[i].id)
                ELSE /\ Has(active_signals', active_signals[i].id)
                     /\ Get(active_signals', active_signals[i].id) = active_signals[i]]_lifecycle_vars
    /\ [][(IsTransitionCall /\ ret'.new_state = "EXECUTED") =>
            /\ ret'.ok <=> /\ Has(active_signals, ret'.signal_id)
                           /\ Get(active_signals, ret'.signal_id).state = "ACTIVE"
            /\ ~ret'.ok => UNCHANGED <<active_signals, signal_history, stats>>]_lifecycle_vars

\* The monitor has expired the only signal created, and the request for
\* EXECUTED that followed was refused.
C2_Witness ==
    /\ ret.op = "transition_state"
    /\ ret.new_state = "EXECUTED"
    /\ ~ret.ok
    /\ mon_pc # "off"
    /\ stats["total_created"] = 1
    /\ stats["total_expired"] = 1
    /\ ~Has(active_signals, ret.signal_id)

\* The signal id is in the active map, past its expiration, whatever its state.
PastExpiration(id) ==
    Has(active_signals, id) /\ now >= Get(active_signals, id).expiration_time

\* C3 as stated, for every signal of the active map: while the monitor
\* runs, a signal whose expiration time has passed does not stay in the
\* active map; it leaves it (or has its expiration moved by a re-creation).
C3_EveryExpiredSignalExpires ==
    \A id \in SignalIds :
        (running /\ PastExpiration(id)) ~> (~running \/ ~PastExpiration(id))

\* C3, amended: while the monitor runs, a signal that is PENDING or ACTIVE
\* past its expiration time does not stay so: the monitor expires it on its
\* next pass unless another step (execution, cleanup_expired, re-creation)
\* takes it out of that condition first; and what the monitor expires is
\* then EXPIRED, archived, and absent from get_active_signals.
C3_OverdueSignalExpires ==
    /\ \A id \in SignalIds : (running /\ Overdue(id)) ~> (~running \/ ~Overdue(id))
    /\ [][ret'.op = "_monitor_loop:expire" =>
            /\ ~Has(active_signals', ret'.signal_id)
            /\ signal_history' # <<>>
            /\ signal_history'[Len(signal_history')] =
                  [id |-> ret'.signal_id, state |-> "EXPIRED"]
            /\ ret'.signal_id \notin GetActiveSignals(None)']_lifecycle_vars

\* The monitor has just expired a PENDING signal.
C3_Witness ==
    /\ ret.op = "_monitor_loop:expire"
    /\ ret.ok
    /\ published[1].old_state = "PENDING"
    /\ signal_history[Len(signal_history)].state = "EXPIRED"
    /\ ret.signal_id \notin GetActiveSignals(None)

\* C4: a transition_state call that returns false changes nothing: the
\* active map, the history and the statistics are as before, no event is
\* published and no state callback is invoked.
C4_FailedTransitionNoEffect ==
    /\ [](\A id \in SignalIds, new_state \in SignalState, kwargs \in Kwargs :
            LET r == TransitionState(Manager, state_callbacks, id, new_state, kwargs) IN
            ~r.ok => r.m = Manager /\ r.events = <<>> /\ r.fired = <<>>)
    /\ [][(IsTransitionCall /\ ~ret'.ok) =>
            /\ UNCHANGED <<active_signals, signal_history, stats>>
            /\ published' = <<>>
            /\ fired' = <<>>]_lifecycle_vars

\* A request was refused on a known signal, for a state that has a callback.
C4_Witness ==
    /\ ret.op = "transition_state"
    /\ ~ret.ok
    /\ Has(active_signals, ret.signal_id)
    /\ state_callbacks[ret.new_state] # <<>>

\* C5 as stated: create_signal returns false and changes nothing when the
\* signal's id is already in the active map; otherwise it returns true and
\* registers the signal in PENDING.
C5_DuplicateIdRejected ==
    [][ret'.op = "create_signal" =>
        IF Has(active_signals, ret'.signal_id)
        THEN /\ ~ret'.ok
             /\ UNCHANGED <<active_signals, signal_history, stats, timers>>
             /\ published' = <<>>
        ELSE /\ ret'.ok
             /\ Has(active_signals', ret'.signal_id)
             /\ Get(active_signals', ret'.signal_id).state = "PENDING"]_lifecycle_vars

\* C7: the auto-activation timer acts only on a signal that is still in the
\* active map and PENDING, which it makes ACTIVE with one state-change
\* event; in every other case (the signal was activated, transitioned,
\* expired or archived meanwhile; start() never called or stop() called)
\* its firing changes nothing and publishes nothing.
C7_TimerActivatesPendingOnly ==
    [][ret'.op = "_auto_activate_signal" =>
        LET id == ret'.signal_id IN
        IF Has(active_signals, id) /\ Get(active_signals, id).state = "PENDING"
        THEN /\ ret'.ok
             /\ active_signals' =
                   Put(active_signals, [Get(active_signals, id) EXCEPT !.state = "ACTIVE"])
             /\ published' = <<StateChangedEvent(id, "PENDING", "ACTIVE")>>
             /\ UNCHANGED <<signal_history, stats>>
        ELSE /\ ~ret'.ok
             /\ UNCHANGED <<active_signals, signal_history, stats>>
             /\ published' = <<>>
             /\ fired' = <<>>]_lifecycle_vars

\* After stop(), with the monitor thread not yet out of its loop, a timer
\* fired for a signal that is still in the map but no longer PENDING.
C7_Witness ==
    /\ ret.op = "_auto_activate_signal"
    /\ ~ret.ok
    /\ ~running
    /\ mon_pc = "head"
    /\ Has(active_signals, ret.signal_id)
    /\ Get(active_signals, ret.signal_id).state # "PENDING"

\* C8: when the monitor force-expires a signal it publishes exactly two
\* events, in this order: STRATEGIC_SIGNAL_STATE_CHANGED from the signal's
\* state to EXPIRED, then STRATEGIC_SIGNAL_EXPIRED with reason "timeout";
\* and STRATEGIC_SIGNAL_EXPIRED is published by no other step, so never
\* for a signal whose transition to EXPIRED did not happen.
C8_ExpiryEventsInOrder ==
    /\ [][ret'.op = "_monitor_loop:expire" =>
            /\ Has(active_signals, ret'.signal_id)
            /\ published' =
                  <<StateChangedEvent(ret'.signal_id,
                                      Get(active_signals, ret'.signal_id).state, "EXPIRED"),
                    ExpiredEvent(ret'.signal_id, "timeout")>>]_lifecycle_vars
    /\ [][(\E i \in 1..Len(published') :
              published'[i].topic = "STRATEGIC_SIGNAL_EXPIRED") =>
            /\ ret'.op = "_monitor_loop:expire"
            /\ ret'.ok
            /\ signal_history' # <<>>
            /\ signal_history'[Len(signal_history')] =
                  [id |-> ret'.signal_id, state |-> "EXPIRED"]]_lifecycle_vars

\* The monitor has just expired an ACTIVE signal and published both events.
C8_Witness ==
    /\ ret.op = "_monitor_loop:expire"
    /\ Len(published) = 2
    /\ published[1].old_state = "ACTIVE"
    /\ published[2].topic = "STRATEGIC_SIGNAL_EXPIRED"

\* C6: whenever the lock is free, every signal of the active map is in a
\* non-terminal state (PENDING, ACTIVE or EXECUTED); a transition_state call
\* that puts a signal in EXPIRED, STOPPED or TARGET_HIT removes it from the
\* active map and appends it to the history before it releases the lock;
\* and the history never holds more than 100 signals.
C6_TerminalSignalsArchived ==
    /\ [](lock = "free" =>
            \A i \in 1..Len(active_signals) : active_signals[i].state \notin TerminalStates)
    /\ [](Len(signal_history) <= 100)
    /\ [][(ret'.op = "transition_state" /\ ret'.ok /\ ret'.new_state \in TerminalStates) =>
            /\ lock = "api"
            /\ Get(active_signals, ret'.signal_id).state = ret'.new_state
            /\ ~Has(active_signals', ret'.signal_id)
            /\ signal_history'[Len(signal_history')] =
                  [id |-> ret'.signal_id, state |-> ret'.new_state]
            /\ Len(signal_history') = IF Len(signal_history) < 100
                                      THEN Len(signal_history) + 1 ELSE 100]_lifecycle_vars

\* The history is full and its oldest entry has been dropped.
C6_Witness ==
    /\ lock = "free"
    /\ Len(signal_history) = 100
    /\ stats["total_expired"] > 100
    /\ active_signals = <<>>

\* Some circuit breaker is tripped.
AnyBreakerTripped == \E b \in Breakers : circuit_breakers[b]

\* C9 as stated: while a circuit breaker is tripped, create_strategic_signal
\* registers no signal with the lifecycle manager and no
\* STRATEGIC_SIGNAL_CREATED event is published.
C9_NoAdmissionWhileTripped ==
    [][(AnyBreakerTripped /\ ret'.op = "create_strategic_signal") =>
          /\ ~ret'.ok
          /\ active_signals' = active_signals
          /\ \A i \in 1..Len(published') :
                published'[i].topic # "STRATEGIC_SIGNAL_CREATED"]_vars

\* C10 as stated: from the moment the emergency breaker becomes true until
\* the next daily reset or manual override of that breaker, no evaluation
\* (a direct evaluate_signal call or the one of _handle_signal_generated)
\* approves a signal.
C10_EmergencyBlocksApproval ==
    [][(emergency_window /\ ret'.op \in {"evaluate_signal", "_handle_signal_generated"}) =>
          ~ret'.ok]_vars

\* The last step was an evaluation of a signal by the risk service.
IsEvaluation(r) == r.op \in {"evaluate_signal", "_handle_signal_generated"}

\* The evaluation was a rejection at the given risk level.
Rejected(a, risk_level) ==
    /\ a # None
    /\ ~a[1].approved
    /\ a[1].risk_level = risk_level

\* C11: each TRADE_CLOSED with a negative pnl lengthens the loss streak by
\* one and any other resets it to zero, and right after the event the
\* consecutive_losses breaker is true iff the streak has reached
\* consecutive_losses_limit; every evaluation made while that breaker is
\* true is rejected with risk level CRITICAL.
C11_LossStreakBreaker ==
    [][/\ ret'.op = "_handle_trade_closed" =>
             LET pnl == performance_metrics'.daily_pnl - performance_metrics.daily_pnl
                 streak == IF pnl < 0 THEN performance_metrics.consecutive_losses + 1
                           ELSE 0
             IN /\ performance_metrics'.consecutive_losses = streak
                /\ circuit_breakers'["consecutive_losses"] =
                      (streak >= ConsecutiveLossesLimit)
       /\ (circuit_breakers["consecutive_losses"] /\ IsEvaluation(ret')) =>
             /\ ~ret'.ok
             /\ Rejected(evaluation', "CRITICAL")]_vars

\* An evaluation is rejected after the streak reached the limit exactly.
C11_Witness ==
    /\ IsEvaluation(ret)
    /\ performance_metrics.consecutive_losses = ConsecutiveLossesLimit
    /\ circuit_breakers["consecutive_losses"]
    /\ \A b \in Breakers \ {"consecutive_losses"} : ~circuit_breakers[b]
    /\ Rejected(evaluation, "CRITICAL")

\* The approvals recorded in the trailing window that ends now.
Trailing(key, window) ==
    Cardinality({i \in 1..Len(signal_timestamps[key]) :
                    signal_timestamps[key][i] > now - window})

\* The frequency check as the specification words it, for the given signal.
FrequencyExceeded(signal) ==
    \/ Trailing("all", OneMinute) >= MaxSignalsPerMinute
    \/ Trailing("all", OneHour) >= MaxSignalsPerHour
    \/ /\ signal.source = "CONFLUENCE"
       /\ Trailing("confluence", OneHour) >= MaxConfluencePerHour

ApprovalsIn(sources, window, end) ==
    Cardinality({i \in 1..Len(risk_signal_history) :
                    /\ risk_signal_history[i].signal.source \in sources
                    /\ risk_signal_history[i].timestamp > end - window
                    /\ risk_signal_history[i].timestamp <= end})

\* The ends of the trailing windows looked at: now and every approval's time.
WindowEnds == {now} \cup {risk_signal_history[i].timestamp : i \in 1..Len(risk_signal_history)}

\* C13: no evaluation approves a signal when the approvals recorded in the
\* trailing minute have reached max_signals_per_minute, or those of the
\* trailing hour max_signals_per_hour, or (for a CONFLUENCE signal) the
\* confluence approvals of the trailing hour max_confluence_per_hour; and
\* the approvals inside any trailing window never exceed the window's cap.
C13_FrequencyCaps ==
    /\ [](\A end \in WindowEnds :
            /\ ApprovalsIn(SignalSource, OneMinute, end) <= MaxSignalsPerMinute
            /\ ApprovalsIn(SignalSource, OneHour, end) <= MaxSignalsPerHour
            /\ ApprovalsIn({"CONFLUENCE"}, OneHour, end) <= MaxConfluencePerHour)
    /\ [][(IsEvaluation(ret') /\ evaluation'[1].approved) =>
             ~FrequencyExceeded(evaluation'[1].signal)]_vars

\* With the hour's cap reached by approvals of two different minutes, a
\* signal of sufficient quality is rejected for the frequency although the
\* trailing minute is below its cap.
C13_Witness ==
    /\ IsEvaluation(ret)
    /\ Rejected(evaluation, "HIGH")
    /\ ~QualityTooLow(evaluation[1].signal)
    /\ ApprovalsIn(SignalSource, OneMinute, now) < MaxSignalsPerMinute
    /\ ApprovalsIn(SignalSource, OneHour, now) = MaxSignalsPerHour

\* The severity of a risk level.
Severity(level) ==
    CASE level = "CRITICAL" -> 3 [] level = "HIGH" -> 2 [] level = "MEDIUM" -> 1
      [] OTHER -> 0

\* The tier of num/den against the limit, as the specification states it:
\* MEDIUM, HIGH, CRITICAL from 30%, 60%, 100% of the limit, LOW below.
StatedTier(num, den, limit) ==
    IF num >= limit * den THEN "CRITICAL"
    ELSE IF 10 * num >= 6 * limit * den THEN "HIGH"
    ELSE IF 10 * num >= 3 * limit * den THEN "MEDIUM"
    ELSE "LOW"

\* The levels of which the specification takes the worst; the breakers
\* counted are the three that stand for the three metrics.
StatedLevels ==
    {IF \E b \in {"emergency", "consecutive_losses", "drawdown"} : circuit_breakers[b]
     THEN "CRITICAL" ELSE "LOW",
     StatedTier(performance_metrics.consecutive_losses, 1, ConsecutiveLossesLimit),
     StatedTier(performance_metrics.current_drawdown.num,
                performance_metrics.current_drawdown.den, MaxDrawdownPercent),
     StatedTier(-performance_metrics.daily_pnl, 1, EmergencyStopLoss)}

\* C14 as stated: in every state the computed current risk level is the
\* most severe of the breaker-implied level and the tiers of the loss
\* streak, the drawdown and the daily loss, each tier at 30/60/100% of its
\* limit.
C14_RiskLevelIsWorstTier ==
    /\ CalculateCurrentRiskLevel(Risk) \in StatedLevels
    /\ \A level \in StatedLevels :
          Severity(level) <= Severity(CalculateCurrentRiskLevel(Risk))

\* C15: reset_daily_metrics sets the daily P&L, the peak P&L and the current
\* drawdown to zero and the emergency breaker to false, and leaves the loss
\* streak and the frequency, quality, drawdown and consecutive_losses
\* breakers as they were.
C15_DailyResetFrame ==
    [][ret'.op = "reset_daily_metrics" =>
          /\ performance_metrics'.daily_pnl = 0
          /\ performance_metrics'.peak_pnl = 0
          /\ performance_metrics'.current_drawdown.num = 0
          /\ ~circuit_breakers'["emergency"]
          /\ performance_metrics'.consecutive_losses = performance_metrics.consecutive_losses
          /\ \A b \in Breakers \ {"emergency"} :
                circuit_breakers'[b] = circuit_breakers[b]]_vars

\* A reset after a losing streak that tripped the consecutive_losses
\* breaker: the streak and the breaker are still there, the P&L is zero.
C15_Witness ==
    /\ ret.op = "reset_daily_metrics"
    /\ performance_metrics.consecutive_losses >= ConsecutiveLossesLimit
    /\ circuit_breakers["consecutive_losses"]
    /\ performance_metrics.daily_pnl = 0

\* The last step was a create_strategic_signal call that reached its
\* confluence check.
CheckedConfluence(r, c) ==
    /\ r.op = "create_strategic_signal"
    /\ c # None
    /\ c[1].confluence # None

\* The pending candidate of the symbol has been stored for longer than the
\* pairing timeout.
Stale(symbol) ==
    /\ pending_confluence[symbol] # None
    /\ now - pending_confluence[symbol][1].timestamp > ConfluenceTimeout

\* The pending candidate of the symbol was stored within the pairing timeout.
Fresh(symbol) ==
    /\ pending_confluence[symbol] # None
    /\ now - pending_confluence[symbol][1].timestamp <= ConfluenceTimeout

\* The confidence after the filters' scaling.
Scaled(c) == Min((c.confidence * c.confidence_multiplier) \div 100, 100)

\* The candidate of the call is the one stored in the slot of its symbol.
StoredWaiting(c, pending) ==
    /\ pending[c.symbol] # None
    /\ pending[c.symbol][1].signal.id = c.signal[1].id

\* C16 as stated: a candidate that finds the other symbol's slot empty or
\* stale and is stored as waiting for its pair gets no confluence boost: the
\* signal created has the confidence it had after the filters' scaling, and
\* it is created PENDING.
C16_NoBoostWhileWaiting ==
    [][(/\ CheckedConfluence(ret', candidate')
        /\ candidate'[1].signal # None
        /\ \/ pending_confluence[OtherSymbol(candidate'[1].symbol)] = None
           \/ Stale(OtherSymbol(candidate'[1].symbol))
        /\ StoredWaiting(candidate'[1], pending_confluence')) =>
          /\ candidate'[1].signal[1].confidence = Scaled(candidate'[1])
          /\ candidate'[1].signal[1].state = "PENDING"]_vars

\* The slots of the pending cache that hold a candidate.
Occupied(pending) == {symbol \in Symbols : pending[symbol] # None}

ConflictStatus == {"NO_CONFLICT", "MINOR_CONFLICT", "MAJOR_CONFLICT"}

\* C17: a candidate that follows, within the pairing timeout, a pending
\* candidate of the other symbol is compared with that candidate and no
\* other, gets one conflict classification, removes that candidate's slot
\* and is not stored itself; and no confluence check ever compares a
\* candidate with one that an earlier check compared and removed.
C17_AtMostOnePairing ==
    [][CheckedConfluence(ret', candidate') =>
          LET c == candidate'[1]
              other == OtherSymbol(c.symbol)
          IN /\ Fresh(other) =>
                   /\ c.confluence[1].compared = Some(pending_confluence[other][1].signal.id)
                   /\ ~c.confluence[1].waiting_pair
                   /\ c.confluence[1].status \in ConflictStatus
                   /\ pending_confluence'[other] = None
                   /\ pending_confluence'[c.symbol] = pending_confluence[c.symbol]
                   /\ Cardinality(Occupied(pending_confluence'))
                         = Cardinality(Occupied(pending_confluence)) - 1
             /\ c.confluence[1].compared # None =>
                   c.confluence[1].compared[1] \notin consumed]_vars

\* A third candidate is stored as waiting after the first two were paired.
C17_Witness ==
    /\ CheckedConfluence(ret, candidate)
    /\ consumed # {}
    /\ candidate[1].confluence[1].waiting_pair
    /\ uuids = 3

\* C18 as stated: a pending candidate stored for longer than the pairing
\* timeout, however long ago, is never used in a comparison: the next
\* candidate of the other symbol discards it, is stored as waiting and gets
\* the unresolved result.
C18_StaleCandidateNeverCompared ==
    [][(/\ CheckedConfluence(ret', candidate')
        /\ Stale(OtherSymbol(candidate'[1].symbol))) =>
          /\ candidate'[1].confluence[1].compared = None
          /\ candidate'[1].confluence[1].waiting_pair
          /\ candidate'[1].confluence[1].status = "NO_CONFLICT"
          /\ pending_confluence'[OtherSymbol(candidate'[1].symbol)] = None
          /\ pending_confluence'[candidate'[1].symbol] # None]_vars

\* A probability, in percent.
IsConfidence(x) == x \in 0..100

\* C19: every signal that create_strategic_signal returns, and so every
\* signal registered or pending, has a final confidence in [0, 1], whatever
\* filter multiplier, confluence boost or conflict penalty was applied.
C19_ConfidenceBounds ==
    /\ (candidate # None /\ candidate[1].signal # None) =>
          IsConfidence(candidate[1].signal[1].confidence)
    /\ \A id \in KeySet(active_signals) : IsConfidence(Get(active_signals, id).confidence)
    /\ \A symbol \in Symbols :
          pending_confluence[symbol] # None =>
             IsConfidence(pending_confluence[symbol][1].signal.confidence)

\* A boost that the clamp cuts: a scaled confidence above 0.85 gives 1.0.
C19_Witness ==
    /\ CheckedConfluence(ret, candidate)
    /\ candidate[1].signal # None
    /\ candidate[1].confluence[1].status = "NO_CONFLICT"
    /\ Scaled(candidate[1]) + ConfidenceBoost > 100
    /\ candidate[1].signal[1].confidence = 100

\* C20: in every reachable state of the position manager, whatever the order
\* in which the threads deliver EXECUTED state changes, expirations,
\* warnings, market updates and overrides, the number of open positions is
\* at most max_positions.
C20_PositionCeiling == Len(positions) <= MaxPositions

\* An EXECUTED state change was handled while max_positions positions were
\* open: no position was opened for it.
C20_Witness ==
    /\ ret.op = "_handle_signal_state_changed"
    /\ ret.new_state = "EXECUTED"
    /\ published = <<>>
    /\ Len(positions) = MaxPositions
    /\ ~Has(signal_to_position, ret.signal_id)

\* The open positions that the signal id originated.
PositionsOf(pos, id) == {k \in 1..Len(pos) : pos[k].signal_id = id}

\* C21: in every reachable state, after any sequence of signal creations,
\* transitions and position events, at most one open position has any given
\* originating signal id.
C21_OnePositionPerSignal ==
    \A id \in TrackedIds : Cardinality(PositionsOf(positions, id)) <= 1

\* The last step published that the signal's position was closed, at the
\* price and for the reason given.
PublishedClosed(events, id, reason, price) ==
    \E n \in 1..Len(events) :
        /\ events[n].topic = "POSITION_CLOSED"
        /\ events[n].signal_id = id
        /\ events[n].reason = reason
        /\ events[n].exit_price = Some(price)

\* C22: when the lifecycle manager accepts a transition to STOPPED or
\* TARGET_HIT of a signal that has an open position, then once the
\* state-change event is handled the position is out of the open set and
\* recorded as closed at the signal's exit price, with reason SIGNAL_STOPPED
\* or TARGET_HIT respectively.
C22_TerminalTransitionClosesPosition ==
    [][(/\ ret'.op = "transition_state"
        /\ ret'.ok
        /\ ret'.new_state \in {"STOPPED", "TARGET_HIT"}
        /\ PositionsOf(positions, ret'.signal_id) # {})
       => /\ PositionsOf(positions', ret'.signal_id) = {}
          /\ Len(closed_positions') = Len(closed_positions) + 1
          /\ PublishedClosed(published', ret'.signal_id,
                             IF ret'.new_state = "STOPPED" THEN "SIGNAL_STOPPED"
                             ELSE "TARGET_HIT",
                             TrackedExitPrice)]_vars

\* The divergence warnings among the warnings a position has received.
DivergenceCount(position) ==
    Cardinality({i \in 1..Len(position.warnings_received) :
                    position.warnings_received[i] \in {"DIVERGENCE_BULLISH", "DIVERGENCE_BEARISH"}})

\* The last step published that the position was closed for the reason.
ClosedFor(events, id, reason) ==
    \E n \in 1..Len(events) :
        /\ events[n].topic = "POSITION_CLOSED"
        /\ events[n].position = id
        /\ events[n].reason = reason

\* C23: with auto-manage on, a position is closed with reason
\* MULTIPLE_WARNINGS by the handling of the second divergence warning
\* against its direction: never while it has received fewer than two such
\* warnings, and no position stays open with two of them.
C23_ClosedOnSecondDivergence ==
    [][/\ \A k \in 1..Len(positions) :
             ClosedFor(published', positions[k].id, "MULTIPLE_WARNINGS")
             => /\ ret'.op = "_handle_divergence_warning"
                /\ DivergenceCount(positions[k]) = 1
       /\ \A k \in 1..Len(positions') : DivergenceCount(positions'[k]) < 2]_vars

\* C24: once manual_override('emergency', True) has published RISK_OVERRIDE
\* and the event is handled, no position is open and every position that
\* was open has been closed with reason EMERGENCY_STOP; an override of
\* another breaker, or of emergency to false, closes nothing.
C24_EmergencyClosesEverything ==
    [][\A breaker \in TrackedBreakers :
          ret'.op = "manual_override:" \o breaker
          => IF breaker = "emergency" /\ circuit_breakers'["emergency"]
             THEN /\ positions' = <<>>
                  /\ \A k \in 1..Len(positions) :
                        ClosedFor(published', positions[k].id, "EMERGENCY_STOP")
             ELSE UNCHANGED position_vars]_vars

\* The signal id is linked to a position that is open.
Linked(id) ==
    /\ Has(signal_to_position, id)
    /\ Has(positions, Get(signal_to_position, id).position_id)

\* The open position linked to the signal id.
LinkedPosition(id) == Get(positions, Get(signal_to_position, id).position_id)

\* C25: when a signal-expired event arrives for a signal with a linked open
\* position, the position is closed with reason SIGNAL_EXPIRED if and only
\* if its running P&L is negative; with a zero or positive P&L it stays
\* open and unchanged.
C25_ExpiredClosesLosingPosition ==
    [][(ret'.op = "_handle_signal_expired" /\ Linked(ret'.signal_id))
       => IF LinkedPosition(ret'.signal_id).pnl < 0
          THEN /\ ~Has(positions', LinkedPosition(ret'.signal_id).id)
               /\ ClosedFor(published', LinkedPosition(ret'.signal_id).id, "SIGNAL_EXPIRED")
               /\ Len(closed_positions') = Len(closed_positions) + 1
          ELSE UNCHANGED position_vars /\ published' = <<>>]_vars

\* A signal-expired event has closed the losing position of its signal.
C25_Witness ==
    /\ ret.op = "_handle_signal_expired"
    /\ \E n \in 1..Len(published) :
          /\ published[n].topic = "POSITION_CLOSED"
          /\ published[n].signal_id = ret.signal_id
          /\ published[n].reason = "SIGNAL_EXPIRED"
          /\ published[n].pnl < 0

MaxProposals == 3     \* create_strategic_signal calls per behaviour of ProposalSpec

\* Proposals of the detectors: a WDO buy and a DOL sell of low confidence,
\* each with a sound, a zero and a missing price distance: entry 0, stop 0,
\* stop equal to the entry, with and without a first target.
Proposals ==
    {[setup_type |-> "REVERSAL_VIOLENT", symbol |-> d.symbol, direction |-> d.direction,
      entry_price |-> entry_price, stop_loss |-> stop_loss, targets |-> targets,
      confidence |-> d.confidence] :
        d \in {[symbol |-> "WDO", direction |-> "COMPRA", confidence |-> 70],
               [symbol |-> "DOL", direction |-> "VENDA", confidence |-> 60]},
        entry_price \in {0, 5000}, stop_loss \in {0, 4984, 5000},
        targets \in {<<>>, <<5016>>}}

\* Proposals, sound or not, reach create_strategic_signal.
ProposalNext ==
    \E p \in Proposals, filter_results \in FilterResults, hour \in Hours :
        CreateProposedSignal(p, filter_results, hour, MaxProposals)

ProposalSpec == Init /\ [][ProposalNext]_vars

\* The grounds on which create_strategic_signal is to reject the recorded
\* proposal: a non-positive price, no risk, failed filters, a major
\* conflict that leaves the confidence below the minimum.
RejectionGround(c) ==
    \/ c.entry_price <= 0
    \/ c.stop_loss <= 0
    \/ c.entry_price = c.stop_loss
    \/ ~c.passed
    \/ /\ c.confluence # None
       /\ c.confluence[1].status = "MAJOR_CONFLICT"
       /\ (c.confluence[1].adjusted * (100 - ConfidencePenalty)) \div 100 < MinConfidence

\* C26: a proposal rejected on policy or sanity grounds (non-positive entry
\* or stop price, entry equal to stop, failing filters, major conflict with
\* low confidence) makes create_strategic_signal return None, and no
\* rejection raises an exception out of the call.
C26_RejectionReturnsNone ==
    candidate # None /\ RejectionGround(candidate[1])
        => candidate[1].signal = None /\ ~candidate[1].raised

MaxSubscriptions == 3     \* handlers subscribed to one event type

\* The services subscribe their handlers and events are published, with
\* any of the handlers raising.
BusNext ==
    \/ \E event_type \in EventTypes, handler \in Subscribers :
          Len(handlers[event_type]) < MaxSubscriptions /\ Subscribe(event_type, handler)
    \/ \E event_type \in EventTypes, raising \in SUBSET Subscribers :
          Publish(event_type, raising)

BusSpec == Init /\ [][BusNext]_vars

\* The number of times handler is in the sequence invoked.
Invocations(invoked, handler) ==
    Cardinality({i \in 1..Len(invoked) : invoked[i] = handler})

\* C27: publish(topic, data) invokes every handler subscribed to the topic
\* exactly once, before it returns and in subscription order, whether or
\* not handlers before it raised, and no handler's exception reaches the
\* publisher.
C27_PublishInvokesEveryHandler ==
    ret.op = "publish" =>
        LET d == delivery[1] IN
        /\ d.invoked = handlers[d.event_type]
        /\ \A i \in 1..Len(handlers[d.event_type]) :
              Invocations(d.invoked, handlers[d.event_type][i]) = 1
        /\ ~d.propagated
        /\ ret.ok

\* Three handlers are subscribed, the first and the second raise, and the
\* event was published.
C27_Witness ==
    /\ ret.op = "publish"
    /\ Len(handlers[delivery[1].event_type]) = 3
    /\ handlers[delivery[1].event_type][1] \in delivery[1].raising
    /\ handlers[delivery[1].event_type][2] \in delivery[1].raising
    /\ handlers[delivery[1].event_type][3] \notin delivery[1].raising
    /\ Len(delivery[1].invoked) = 3

\* Two threads deliver TRADE_CLOSED events to the risk service.
WorkerNext ==
    \/ \E w \in Workers, pnl \in TradePnls : TradeClosedLoad(w, pnl)
    \/ \E w \in Workers : TradeClosedStore(w)

WorkerSpec == Init /\ [][WorkerNext]_vars

\* C28: when two threads deliver trade-closed events concurrently no update
\* is lost: once both handlers have completed, daily P&L is the prior value
\* plus the P&L of every event, and each metric-driven breaker equals its
\* predicate over the final metrics.
C28_NoLostUpdate ==
    (\A w \in Workers : workers[w].pc = "idle") =>
        /\ performance_metrics.daily_pnl = delivered_pnl
        /\ circuit_breakers = UpdateCircuitBreakers(Risk).breakers

MaxPaired == 2        \* create_strategic_signal calls per behaviour of PairingSpec

\* The stop and the first target of a sound proposal are 16 points from
\* its entry.
PairDistance == 16

\* Candidates of both symbols and directions, reversals of the two kinds,
\* at 5000 and 3 points (0.06 %) above; 2 points (0.04 %) above for the
\* violent reversals.
PairCandidates ==
    {[setup_type |-> setup_type, symbol |-> symbol, direction |-> direction,
      entry_price |-> entry_price, stop_loss |-> entry_price - PairDistance,
      targets |-> <<entry_price + PairDistance>>, confidence |-> 90] :
        setup_type \in {"REVERSAL_VIOLENT", "REVERSAL_SLOW"}, symbol \in Symbols,
        direction \in {"COMPRA", "VENDA"}, entry_price \in {5000, 5003}}
    \cup
    {[setup_type |-> "REVERSAL_VIOLENT", symbol |-> symbol, direction |-> "COMPRA",
      entry_price |-> 5002, stop_loss |-> 5002 - PairDistance,
      targets |-> <<5002 + PairDistance>>, confidence |-> 90] : symbol \in Symbols}

\* Candidates of the two symbols meet in the pending cache as time passes.
PairingNext ==
    \/ \E p \in PairCandidates, hour \in SessionHours :
          CreateProposedSignal(p, [passed |-> TRUE, confidence_multiplier |-> 100],
                               hour, MaxPaired)
    \/ \E t \in PairingClock : Elapse(t)

PairingSpec == Init /\ [][PairingNext]_vars

\* The recorded call compared its candidate with a pending candidate.
Compared(c) == c.confluence # None /\ c.confluence[1].compared # None

\* The normalized divergence of the entry prices, |p1 - p2| over their
\* mean, is above 0.05 %.
PricesDiverge(p1, p2) == 4000 * Abs(p1 - p2) > p1 + p2

\* C29: when a candidate is compared with a fresh pending candidate of the
\* other symbol, the first failing check decides, in this order: different
\* directions give MAJOR_CONFLICT; else a normalized entry-price divergence
\* above 0.05 % gives MINOR_CONFLICT; else a partner setup outside the
\* compatibility table gives MINOR_CONFLICT; else a timestamp skew above
\* 30 s gives MINOR_CONFLICT; else NO_CONFLICT.
C29_ClassificationOrder ==
    candidate # None /\ Compared(candidate[1]) =>
        LET c == candidate[1]
            partner == c.partner[1].signal
            status == c.confluence[1].status
            directions == c.direction # partner.direction
            prices == PricesDiverge(c.entry_price, partner.entry_price)
            setups == partner.setup_type \notin CompatibleSetups(c.setup_type)
            skew == Abs(c.timestamp - partner.timestamp) > 30
        IN /\ directions => status = "MAJOR_CONFLICT" /\ c.reason = "Direções opostas"
           /\ ~directions /\ prices =>
                 status = "MINOR_CONFLICT" /\ c.reason = "Divergência de preços"
           /\ ~directions /\ ~prices /\ setups =>
                 status = "MINOR_CONFLICT" /\ c.reason = "Setups incompatíveis"
           /\ ~directions /\ ~prices /\ ~setups /\ skew =>
                 status = "MINOR_CONFLICT" /\ c.reason = "Sinais defasados no tempo"
           /\ ~directions /\ ~prices /\ ~setups /\ ~skew => status = "NO_CONFLICT"

\* A candidate was compared with a pending one of the other direction
\* whose price diverges, whose setup is incompatible and which is more
\* than 30 s older: the directions decided.
C29_Witness ==
    /\ candidate # None
    /\ Compared(candidate[1])
    /\ candidate[1].direction # candidate[1].partner[1].signal.direction
    /\ PricesDiverge(candidate[1].entry_price, candidate[1].partner[1].signal.entry_price)
    /\ candidate[1].partner[1].signal.setup_type
          \notin CompatibleSetups(candidate[1].setup_type)
    /\ Abs(candidate[1].timestamp - candidate[1].partner[1].signal.timestamp) > 30
    /\ candidate[1].confluence[1].status = "MAJOR_CONFLICT"

\* Trades close, the day is reset and the operator overrides breakers.
MetricsNext ==
    \/ \E pnl \in TradePnls : HandleTradeClosed(pnl)
    \/ ResetDailyMetrics
    \/ \E breaker \in OverrideBreakers, active \in BOOLEAN : ManualOverride(breaker, active)

MetricsSpec == Init /\ [][MetricsNext]_vars

\* C30: after every trade-closed event with P&L p, daily P&L has increased
\* by p, peak P&L is the maximum daily P&L seen since the last reset (it is
\* the larger of the peak before and the daily P&L after, a reset sets both
\* to zero and nothing else changes them), the loss streak is the streak
\* before plus one if p < 0 and zero otherwise, and the three metric-driven
\* breakers equal their predicates over the updated metrics.
C30_TradeClosedUpdatesMetrics ==
    [][LET before == performance_metrics
           after == performance_metrics'
           p == after.daily_pnl - before.daily_pnl
       IN IF trade_count' # trade_count
          THEN /\ p \in TradePnls
               /\ after.peak_pnl = IF after.daily_pnl > before.peak_pnl
                                   THEN after.daily_pnl ELSE before.peak_pnl
               /\ after.consecutive_losses =
                     IF p < 0 THEN before.consecutive_losses + 1 ELSE 0
               /\ circuit_breakers'["consecutive_losses"]
                     <=> after.consecutive_losses >= ConsecutiveLossesLimit
               /\ circuit_breakers'["drawdown"]
                     <=> /\ after.peak_pnl > 0
                         /\ (after.peak_pnl - after.daily_pnl) * 100
                               >= MaxDrawdownPercent * after.peak_pnl
               /\ circuit_breakers'["emergency"]
                     <=> after.daily_pnl <= -EmergencyStopLoss
          ELSE IF ret'.op = "reset_daily_metrics"
          THEN after.daily_pnl = 0 /\ after.peak_pnl = 0
          ELSE after.daily_pnl = before.daily_pnl /\ after.peak_pnl = before.peak_pnl]_vars

\* A trade has closed at a loss, below the peak of the day: the drawdown
\* breaker is on and the emergency breaker is off.
C30_Witness ==
    /\ ret.op = "_handle_trade_closed"
    /\ performance_metrics.peak_pnl > performance_metrics.daily_pnl
    /\ performance_metrics.consecutive_losses = 1
    /\ circuit_breakers["drawdown"]
    /\ ~circuit_breakers["emergency"]

\* The signals executed before the ticks: a WDO purchase whose nearer
\* target is second in the list, a DOL sale, and a WDO purchase whose stop
\* is at its target.
TickSignal(id) ==
    [id |-> id,
     symbol |-> IF id = "t2" THEN "DOL" ELSE "WDO",
     setup_type |-> "REVERSAL_SLOW",
     direction |-> IF id = "t2" THEN "VENDA" ELSE "COMPRA",
     confidence |-> 70,
     entry_price |-> IF id = "t2" THEN 5026 ELSE 5000,
     execution_price |-> None,
     stop_loss |-> CASE id = "t1" -> 4984 [] id = "t2" -> 5042 [] OTHER -> 5016,
     targets |-> CASE id = "t1" -> <<5032, 5016>>
                   [] id = "t2" -> <<4984>>
                   [] OTHER -> <<5016>>,
     exit_price |-> None]

TickSignalIds == {"t1", "t2", "t3"}

\* The last trade prices of the ticks: at the stops and targets, and 12
\* and 14 points in profit for both directions.
TickPrices == {4984, 5012, 5014, 5016, 5032}

\* Positions are opened (a signal that has a position is not executed
\* again), ticks and manipulation warnings arrive.
TickNext ==
    \/ \E id \in TickSignalIds :
          /\ ~Has(signal_to_position, id)
          /\ HandleSignalStateChanged(TickSignal(id), "EXECUTED")
    \/ \E symbol \in Symbols, price \in TickPrices : HandleMarketTick(symbol, price)
    \/ \E symbol \in Symbols : HandleManipulationWarning(symbol)
    \/ \E t \in PositionClock : Elapse(t)

TickSpec == Init /\ [][TickNext]_vars

\* The price breaches the stop of the position.
StopBreached(p, price) ==
    IF p.direction = "COMPRA" THEN price <= p.stop_loss ELSE price >= p.stop_loss

\* The targets of the position that the price breaches, by list index.
TargetsBreached(p, price) ==
    {i \in 1..Len(p.targets) :
        IF p.direction = "COMPRA" THEN price >= p.targets[i] ELSE price <= p.targets[i]}

\* The running P&L of the position at the price.
PnlAt(p, price) ==
    (IF p.direction = "COMPRA" THEN price - p.entry_price ELSE p.entry_price - price)
        * p.size * PositionPointValue

\* POSITION_CLOSED was published for the position with the reason, the
\* price and the P&L at the price.
TickClosed(events, p, reason, price) ==
    \E i \in 1..Len(events) :
        /\ events[i].topic = "POSITION_CLOSED"
        /\ events[i].position = p.id
        /\ events[i].reason = reason
        /\ events[i].exit_price = Some(price)
        /\ events[i].pnl = PnlAt(p, price)

\* C31: on a market tick for a symbol every open position of the symbol
\* gets the new price and P&L; one whose stop is breached is closed with
\* reason STOP_LOSS even if the price breaches a target too; otherwise the
\* first target in list order that the price breaches closes it with reason
\* TARGET_<index+1>; positions of other symbols are left unchanged.
C31_TickClosesOnBreach ==
    [][ret'.op = "PositionManager._handle_market_update" =>
        \A price \in TickPrices : ret'.new_state = ToString(price) =>
        \A k \in 1..Len(positions) :
            LET p == positions[k]
                hit == TargetsBreached(p, price)
            IN IF p.symbol # ret'.signal_id
               THEN Has(positions', p.id) /\ Get(positions', p.id) = p
               ELSE IF StopBreached(p, price)
               THEN ~Has(positions', p.id) /\ TickClosed(published', p, "STOP_LOSS", price)
               ELSE IF hit # {}
               THEN /\ ~Has(positions', p.id)
                    /\ \E i \in hit :
                          /\ \A j \in hit : i <= j
                          /\ TickClosed(published', p, "TARGET_" \o ToString(i), price)
               ELSE /\ Has(positions', p.id)
                    /\ Get(positions', p.id).current_price = Some(price)
                    /\ Get(positions', p.id).pnl = PnlAt(p, price)]_vars

\* A tick at 5016 closed the position of t3, whose stop and target are both
\* at 5016, with reason STOP_LOSS, and a tick closed a position at its
\* second target.
C31_Witness ==
    /\ ret.op = "PositionManager._handle_market_update"
    /\ \E i \in 1..Len(published) :
          /\ published[i].signal_id = "t3"
          /\ published[i].reason = "STOP_LOSS"
          /\ published[i].exit_price = Some(TickSignal("t3").targets[1])
    /\ \E i \in 1..Len(published) :
          /\ published[i].signal_id = "t1"
          /\ published[i].reason = "TARGET_2"

\* C32: over market ticks with the trailing stop enabled and manipulation
\* warnings the stop of an open position only moves in its favour: the
\* stop of a long position never decreases, the stop of a short position
\* never increases, and a manipulation warning closes no position.
C32_StopOnlyRatchets ==
    [][ret'.op \in {"PositionManager._handle_market_update", "_handle_manipulation_warning"} =>
        /\ \A k \in 1..Len(positions) :
              LET p == positions[k] IN
              Has(positions', p.id) =>
                 IF p.direction = "COMPRA"
                 THEN Get(positions', p.id).stop_loss >= p.stop_loss
                 ELSE Get(positions', p.id).stop_loss <= p.stop_loss
        /\ ret'.op = "_handle_manipulation_warning" =>
              /\ Keys(positions') = Keys(positions)
              /\ closed_positions' = closed_positions
              /\ published' = <<>>]_vars

\* A manipulation warning has reached a long position whose stop the
\* trailing had moved above its entry price, and a short position whose
\* stop it tightened.
C32_Witness ==
    /\ ret.op = "_handle_manipulation_warning"
    /\ \E k \in 1..Len(positions) :
          /\ positions[k].signal_id = "t1"
          /\ positions[k].stop_loss > positions[k].entry_price
          /\ Len(positions[k].warnings_received) > 0
    /\ \E k \in 1..Len(positions) :
          /\ positions[k].direction = "VENDA"
          /\ positions[k].stop_loss < TickSignal("t2").stop_loss
          /\ Len(positions[k].warnings_received) > 0

-----------------------------------------------------------------------------
(* Transitions with callbacks that raise.                                 *)

\* The calling thread creates signals, registers two callbacks and makes
\* transitions during which any of the callbacks may raise.
RaisingNext ==
    \/ \E id \in SignalIds : CreateSignal(id)
    \/ \E state \in SignalState, callback \in RaisingCallbacks :
          RegisterStateCallback(state, callback)
    \/ \E id \in SignalIds, new_state \in SignalState, raising \in SUBSET RaisingCallbacks :
          TransitionStateRaising(id, new_state, NoKwargs, raising)

RaisingSpec == Init /\ [][RaisingNext]_vars

\* C33: a valid transition_state of an active signal during which callbacks
\* of the new state raise is carried out all the same: it returns True, the
\* signal gets the new state, the statistics of the new state are counted,
\* a signal in a final state is moved to the history, and every callback
\* registered for the new state has been called, in registration order.
C33_RaisingCallbackDoesNotAbort ==
    [][(/\ ret'.op = "transition_state:callbacks"
        /\ Has(active_signals, ret'.signal_id)
        /\ IsValidTransition(Get(active_signals, ret'.signal_id).state, ret'.new_state))
       => /\ ret'.ok
          /\ stats' = UpdateStats(stats, ret'.new_state)
          /\ IF ret'.new_state \in TerminalStates
             THEN /\ ~Has(active_signals', ret'.signal_id)
                  /\ Len(signal_history') = Len(signal_history) + 1
                  /\ signal_history'[Len(signal_history')] =
                        [id |-> ret'.signal_id, state |-> ret'.new_state]
             ELSE /\ Has(active_signals', ret'.signal_id)
                  /\ Get(active_signals', ret'.signal_id).state = ret'.new_state
          /\ fired' = [i \in 1..Len(state_callbacks[ret'.new_state]) |->
                          [callback |-> state_callbacks[ret'.new_state][i],
                           signal_id |-> ret'.signal_id]]]_vars

\* A transition to EXPIRED has returned True with the signal archived, after
\* the first of the two callbacks of EXPIRED raised and the second was
\* called all the same.
C33_Witness ==
    /\ ret.op = "transition_state:callbacks"
    /\ ret.new_state = "EXPIRED"
    /\ ret.ok
    /\ ret.count >= 1
    /\ Len(state_callbacks["EXPIRED"]) = 2
    /\ Len(fired) = 2
    /\ ~Has(active_signals, ret.signal_id)
    /\ Len(signal_history) >= 1

-----------------------------------------------------------------------------
(* start() and stop() with the monitor threads they create and join.      *)

ThreadNext ==
    \/ \E id \in SignalIds : CreateSignal(id)
    \/ StartThread
    \/ StopThread
    \/ JoinReturn
    \/ \E i \in ThreadIds : ThreadStep(i)
    \/ Tick

ThreadSpec == Init /\ [][ThreadNext]_vars

\* Every monitor thread is scheduled again and again, and a join returns.
ThreadFairSpec ==
    /\ ThreadSpec
    /\ \A i \in ThreadIds : WF_vars(ThreadStep(i))
    /\ WF_vars(JoinReturn)

\* C34: once stop() has cleared `running`, every monitor thread that is
\* alive leaves its loop and ends.
C34_StoppedMonitorTerminates ==
    \A i \in ThreadIds : (ret.op = "stop:flag" /\ Alive(i)) ~> ~Alive(i)

-----------------------------------------------------------------------------
\* C35: whatever create_strategic_signal calls and market updates have been
\* made, at whatever times, at most one of the two slots of the pending
\* cache, WDO and DOL, holds a waiting candidate.
C35_AtMostOneWaiting == Cardinality(Occupied(pending_confluence)) <= 1

\* After the pairing timeout, a second or later candidate has been stored as
\* waiting for its pair, and the slot of the other symbol is empty.
C35_Witness ==
    /\ CheckedConfluence(ret, candidate)
    /\ candidate[1].confluence[1].waiting_pair
    /\ uuids >= 2
    /\ now > ConfluenceTimeout
    /\ Occupied(pending_confluence) = {candidate[1].symbol}

-----------------------------------------------------------------------------
\* C36: the status that a candidate gets when it is compared with the
\* pending candidate of the other symbol is the status that
\* _analyze_confluence gives for the same two signals with the arguments
\* exchanged, that is, had they arrived in the other order.
C36_ClassificationSymmetric ==
    candidate # None /\ Compared(candidate[1]) =>
        candidate[1].confluence[1].status
            = AnalyzeConfluence(candidate[1].partner[1].signal, candidate[1])

-----------------------------------------------------------------------------
\* C37: in every reachable state each signal-to-position link points to an
\* open position whose originating signal is the signal of the link; so no
\* opening has replaced the position of another signal or taken over its
\* link, also when two signals of one symbol are executed in the same
\* clock second.
C37_LinksPointToOwnPosition ==
    \A k \in 1..Len(signal_to_position) :
        /\ Has(positions, signal_to_position[k].position_id)
        /\ Get(positions, signal_to_position[k].position_id).signal_id
              = signal_to_position[k].id

-----------------------------------------------------------------------------
(* The orchestration's risk gate in front of the event bus.               *)

\* The tactical signals that the tape reading and the arbitrage produce.
TacticalSignals == {signal \in RiskSignals : signal.source # "STRATEGIC"}

\* Tactical signals go through the gate as time passes.
GateNext ==
    \/ \E signal \in TacticalSignals, hour \in SessionHours :
          ProcessSignalWithRisk(signal, hour)
    \/ \E t \in ClockValues : Elapse(t)
    \/ ResetDailyMetrics

GateSpec == Init /\ [][GateNext]_vars

\* The events of the topic among those published by the last step.
PublishedOf(events, topic) == {n \in 1..Len(events) : events[n].topic = topic}

\* C38: a tactical signal that the gate approves is recorded once: the
\* approval counter goes up by one, one timestamp is added to the rolling
\* window, one SIGNAL_APPROVED event is published and no SIGNAL_REJECTED.
C38_EvaluatedOnce ==
    [][(ret'.op = "_process_signal_with_risk" /\ ret'.ok) =>
          /\ performance_metrics'.signals_approved = performance_metrics.signals_approved + 1
          /\ Len(signal_timestamps'["all"]) = Len(signal_timestamps["all"]) + 1
          /\ Cardinality(PublishedOf(published', "SIGNAL_APPROVED")) = 1
          /\ PublishedOf(published', "SIGNAL_REJECTED") = {}]_vars

-----------------------------------------------------------------------------
(* The position manager and the risk service on one event bus.            *)

\* The topics that RiskManagementService._subscribe_to_events subscribes to.
RiskSubscriptions ==
    {"SIGNAL_GENERATED", "TRADE_EXECUTED", "TRADE_CLOSED", "MARKET_DATA_UPDATED"}

RECURSIVE DeliverToRisk(_, _)
\* What the bus makes of the events that a position handler published, as
\* far as the risk service is concerned: an event reaches the handler that
\* the service subscribed to its topic, and _handle_trade_closed is the
\* handler of TRADE_CLOSED.  The position manager publishes POSITION_OPENED
\* and POSITION_CLOSED.
DeliverToRisk(r, events) ==
    IF events = <<>> THEN r
    ELSE DeliverToRisk(
            IF Head(events).topic \in RiskSubscriptions /\ Head(events).topic = "TRADE_CLOSED"
            THEN HandleTradeClosedResult(r, Head(events).pnl)
            ELSE r,
            Tail(events))

\* A handler of the position manager, with the events it publishes
\* delivered to the risk service before it returns.
PositionStepDelivered(h, op, id, new_state) ==
    /\ SetPositions(h.pm)
    /\ SetRisk(DeliverToRisk(Risk, h.events))
    /\ emergency_window' =
          (emergency_window \/ DeliverToRisk(Risk, h.events).breakers["emergency"])
    /\ published' = h.events
    /\ fired' = <<>>
    /\ ret' = [Ret(op, id, ~h.raised, Len(h.pm.positions)) EXCEPT !.new_state = new_state]
    /\ UNCHANGED <<now, active_signals, signal_history, stats, state_callbacks, running,
                   lock, timers, api_pc, api_call, mon_pc, mon_ids>>
    /\ UNCHANGED <<evaluation, trade_count>>
    /\ UNCHANGED <<factory_vars, bus_vars, worker_vars, thread_vars, lock_vars>>

\* Signals are executed and market ticks close their positions.
ClosingNext ==
    \/ \E id \in TickSignalIds :
          /\ ~Has(signal_to_position, id)
          /\ OpeningBelowBound
          /\ PositionStepDelivered(
                SignalStateChangedResult(Positions, TickSignal(id), "EXECUTED", now),
                "_handle_signal_state_changed", id, "EXECUTED")
    \/ \E symbol \in Symbols, price \in TickPrices :
          PositionStepDelivered(MarketTickResult(Positions, symbol, price),
                                "PositionManager._handle_market_update", symbol,
                                ToString(price))
    \/ \E t \in PositionClock : Elapse(t)

ClosingSpec == Init /\ [][ClosingNext]_vars

\* C39: when a handler of the position manager has closed one position with
\* realized P&L p, the risk service's daily P&L has gone up by p and its loss
\* streak has been recomputed (one more after a loss, zero otherwise).
C39_ClosedPnlReachesRisk ==
    [][Cardinality(PublishedOf(published', "POSITION_CLOSED")) = 1 =>
          LET n == CHOOSE k \in PublishedOf(published', "POSITION_CLOSED") : TRUE
              pnl == published'[n].pnl
          IN /\ performance_metrics'.daily_pnl = performance_metrics.daily_pnl + pnl
             /\ performance_metrics'.consecutive_losses =
                   IF pnl < 0 THEN performance_metrics.consecutive_losses + 1 ELSE 0]_vars

-----------------------------------------------------------------------------
(* The threads and the two locks.                                         *)

LockNext ==
    \/ \E thread \in LockThreads : \E plan \in LockPlans(thread) : BeginCall(thread, plan)
    \/ \E thread \in LockThreads : AcquireLock(thread)
    \/ \E thread \in LockThreads : ReleaseLock(thread)

LockSpec == Init /\ [][LockNext]_vars

\* C40: in no reachable state does one thread own the lifecycle lock and
\* wait for the position lock while another owns the position lock and
\* waits for the lifecycle lock.
C40_NoLockCycle ==
    \A a, b \in LockThreads :
        ~(/\ lock = a
          /\ WaitsFor(a, "position")
          /\ position_lock = b
          /\ WaitsFor(b, "lifecycle"))

\* The monitor is inside transition_state, owns the lifecycle lock and
\* waits for the position lock, which the ingestion thread owns in a
\* handler of the position manager.
C40_Witness ==
    /\ lock = "monitor"
    /\ WaitsFor("monitor", "position")
    /\ position_lock = "api"
    /\ lock_threads["api"].plan = PositionHandlerLocks
    /\ WaitsFor("timer", "lifecycle")

=============================================================================
